---- MODULE Spec2Model ----
(***************************************************************************)
(* FFCS course recommender: the pool generator, the credit-limit enforcer, *)
(* the advisor call with its fallback, and the cascading simulator.        *)
(***************************************************************************)
EXTENDS Integers, Sequences, FiniteSets, TLC

(***************************************************************************)
(* Bounds of the model.                                                    *)
(***************************************************************************)
\* longest course list an advisor proposal carries
MaxProposal == 2
\* most course results in a student's history, over all its semesters
MaxResults == 2
\* most codes in a manual selection or deselection set
MaxManual == 2
\* longest advisor response, in tokens
MaxContent == 4
\* most strategies in an advisor response
MaxRecs == 2
\* longest assumed-completed list handed to the simulator
MaxCompleted == 2
\* most later edits of a simulated profile
MaxEdits == 1
\* most presses of a Generate Projection button in one session
MaxProjections == 3

(***************************************************************************)
(* Domain model: src/src/models/course.py, src/src/models/student.py       *)
(***************************************************************************)
\* A Course record (course.py:4-13); name, prerequisites and slots are not
\* read by the operations modelled here.
Course(code, cr, ty, yr, diff) ==
    [course_code |-> code, credits |-> cr, type |-> ty,
     year_level |-> yr, difficulty |-> diff]

\* The catalog as load_courses_data returns it (app.py:57-61): an ordered
\* list of courses with unique codes.
AllCourses ==
    << Course("DC1",   3, "DC", 2, 2),
       Course("OE1",   4, "OE", 2, 2),
       Course("FC1",   2, "FC", 1, 1),
       Course("DE1",   3, "DE", 3, 1),
       Course("OE2",   2, "OE", 1, 1),
       Course("Proj1", 2, "PR", 4, 3),
       Course("Proj2", 4, "PR", 4, 3) >>

Codes == { AllCourses[i].course_code : i \in 1..Len(AllCourses) }

\* ---- generic list helpers (Python list semantics) ----
Range(s) == { s[i] : i \in 1..Len(s) }

RECURSIVE SumSeq(_)
SumSeq(s) == IF s = << >> THEN 0 ELSE Head(s) + SumSeq(Tail(s))

RECURSIVE FilterSeq(_, _)
\* [x for x in s if x in keep]
FilterSeq(s, keep) ==
    IF s = << >> THEN << >>
    ELSE IF Head(s) \in keep THEN << Head(s) >> \o FilterSeq(Tail(s), keep)
         ELSE FilterSeq(Tail(s), keep)

\* sequences over S of length at most n
SeqsUpTo(S, n) == UNION { [1..k -> S] : k \in 0..n }

\* subsets of S with at most n elements
SubsetsUpTo(S, n) == { T \in SUBSET S : Cardinality(T) <= n }

\* ---- StudentProfile queries (student.py) ----
CourseResult(code, gr, cr, st) ==
    [course_code |-> code, grade |-> gr, credits |-> cr, status |-> st]

SemesterResult(sem, cs) == [semester |-> sem, courses |-> cs]

RECURSIVE AllResults(_)
\* the CourseResults of a history in iteration order (for sem ... for course ...)
AllResults(semester_results) ==
    IF semester_results = << >> THEN << >>
    ELSE Head(semester_results).courses \o AllResults(Tail(semester_results))

RECURSIVE CodesWithStatus(_, _)
CodesWithStatus(results, st) ==
    IF results = << >> THEN << >>
    ELSE IF Head(results).status = st
         THEN << Head(results).course_code >> \o CodesWithStatus(Tail(results), st)
         ELSE CodesWithStatus(Tail(results), st)

\* StudentProfile.get_passed_courses: list of codes with a passed result
get_passed_courses(s) == CodesWithStatus(AllResults(s.semester_results), "passed")

\* mutant: a failed result is cleared only by a passed result that comes later
FailedUnlessPassedLater(s) ==
    LET results == AllResults(s.semester_results)
    IN  { results[i].course_code : i \in
            { k \in 1..Len(results) :
                /\ results[k].status = "failed"
                /\ \A j \in (k + 1)..Len(results) :
                      ~(/\ results[j].course_code = results[k].course_code
                        /\ results[j].status = "passed") } }

\* StudentProfile.get_failed_courses: failed - passed, as a set
get_failed_courses(s) ==
    Range(CodesWithStatus(AllResults(s.semester_results), "failed"))
      \ Range(CodesWithStatus(AllResults(s.semester_results), "passed"))

(***************************************************************************)
(* State.                                                                  *)
(***************************************************************************)
VARIABLES
    pc,                 \* position of the operation under way
    student,            \* the StudentProfile in st.session_state.student_data
    selected_courses,   \* st.session_state.selected_courses
    deselected_courses, \* st.session_state.deselected_courses
    available,          \* the list generate_pool returned
    available_courses,  \* the available_courses argument of the enforcer and advisor
    min_credits,        \* st.session_state.min_credits
    max_credits,        \* st.session_state.max_credits
    current_semester,   \* the current_semester argument of the enforcer
    proposal,           \* the recommendation dict as the advisor proposed it
    rec,                \* the same dict object, which the enforcer edits in place
    result,             \* what _enforce_credit_limits returned
    response,           \* the advisor's response to the request under way
    advisor_calls,      \* calls of client.chat.completions.create in this request
    recommendations,    \* what generate_recommendations returned
    heap,               \* the objects of the simulator's call, by address
    student_ref,        \* address of the StudentProfile passed to the simulator
    simulated_ref,      \* address of the StudentProfile the simulator returned
    completed_courses,  \* the completed_courses argument of the simulator
    target_semester,    \* the target_semester argument of the simulator
    edits,              \* edits made to the simulated profile after the call
    selection,          \* the courses argument of the validator
    slot_assignments,   \* the slot_assignments argument of the validator
    validation,         \* what validate_selection returned
    current_rec,        \* the current-semester recommendation whose path is shown
    cascade,            \* st.session_state['cascade_rec_<i>_<target>'], by target
    assumed_of          \* the assumed_completed list of the last projection, by target

poolVars == << student, selected_courses, deselected_courses, available >>
enforceVars == << available_courses, min_credits, max_credits, current_semester,
                  proposal, rec, result >>

advisorVars == << response, advisor_calls, recommendations >>

simulateVars == << heap, student_ref, simulated_ref, completed_courses,
                   target_semester, edits >>

validateVars == << selection, slot_assignments, validation >>

projectVars == << current_rec, cascade, assumed_of >>

vars == << pc, poolVars, enforceVars, advisorVars, simulateVars, validateVars,
           projectVars >>

\* Python's None, where no value of another kind is compared with it
None == "None"

\* an optional dict: NoDict for a None return, Some(d) for the dict d
NoDict == << >>
Some(d) == << d >>

\* the values of the variables an operation does not use
PoolIdle ==
    /\ student = None
    /\ selected_courses = {}
    /\ deselected_courses = {}
    /\ available = << >>

EnforceIdle ==
    /\ available_courses = << >>
    /\ min_credits = 0
    /\ max_credits = 0
    /\ current_semester = None
    /\ proposal = None
    /\ rec = None
    /\ result = NoDict

AdvisorIdle ==
    /\ response = NoDict
    /\ advisor_calls = 0
    /\ recommendations = NoDict

ValidateIdle ==
    /\ selection = << >>
    /\ slot_assignments = << >>
    /\ validation = NoDict

ProjectIdle ==
    /\ current_rec = NoDict
    /\ cascade = << >>
    /\ assumed_of = << >>

SimulateIdle ==
    /\ heap = << >>
    /\ student_ref = 0
    /\ simulated_ref = 0
    /\ completed_courses = << >>
    /\ target_semester = NoDict
    /\ edits = 0

(***************************************************************************)
(* Pool generator: src/src/services/course_pool.py                         *)
(***************************************************************************)
\* the decision generate_pool takes for one course (course_pool.py:31-52)
PoolSkipsPassedLater(course, passed, failed, selected, deselected, current_year) ==
    \* mutant: the manual selection is consulted before the passed set
    IF course.course_code \in deselected THEN FALSE
    ELSE IF course.course_code \in selected THEN TRUE
    ELSE IF course.course_code \in passed THEN FALSE
    ELSE IF course.course_code \in failed THEN TRUE
    ELSE course.year_level <= current_year

PoolYearGatesFailed(course, passed, failed, selected, deselected, current_year) ==
    \* mutant: the failed override is dropped, failed courses are year-gated
    IF course.course_code \in passed THEN FALSE
    ELSE IF course.course_code \in deselected THEN FALSE
    ELSE IF course.course_code \in selected THEN TRUE
    ELSE course.year_level <= current_year

PoolSelectedBeatsDeselected(course, passed, failed, selected, deselected, current_year) ==
    \* mutant: the two manual checks are swapped
    IF course.course_code \in passed THEN FALSE
    ELSE IF course.course_code \in selected THEN TRUE
    ELSE IF course.course_code \in deselected THEN FALSE
    ELSE IF course.course_code \in failed THEN TRUE
    ELSE course.year_level <= current_year

PoolIncludes(course, passed, failed, selected, deselected, current_year) ==
    IF course.course_code \in passed THEN FALSE
    ELSE IF course.course_code \in deselected THEN FALSE
    ELSE IF course.course_code \in selected THEN TRUE
    ELSE IF course.course_code \in failed THEN TRUE
    ELSE course.year_level <= current_year

RECURSIVE PoolLoop(_, _, _, _, _, _)
\* the for loop of generate_pool over self.all_courses, appending in order
PoolLoop(courses, passed, failed, selected, deselected, current_year) ==
    IF courses = << >> THEN << >>
    ELSE (IF PoolIncludes(Head(courses), passed, failed, selected, deselected,
                          current_year)
          THEN << Head(courses) >> ELSE << >>)
         \o PoolLoop(Tail(courses), passed, failed, selected, deselected,
                     current_year)

\* CoursePoolGenerator.generate_pool
generate_pool(all_courses, s, selected, deselected) ==
    PoolLoop(all_courses, Range(get_passed_courses(s)), get_failed_courses(s),
             selected, deselected, s.current_year)

\* ---- inputs of the pool generator ----
Statuses == {"passed", "failed"}

\* the catalog's course with this code (codes are unique in the catalog)
CatalogCourse(code) ==
    AllCourses[CHOOSE i \in 1..Len(AllCourses) : AllCourses[i].course_code = code]

\* codes the modelled histories and manual sets mention; the other catalog
\* courses are only year-gated
HistoryCodes == {"FC1", "DE1"}
ManualCodes == HistoryCodes \cup {"Proj1"}

HistoryResults ==
    { CourseResult(c, IF st = "passed" THEN "B" ELSE "F",
                   CatalogCourse(c).credits, st) :
        c \in HistoryCodes, st \in Statuses }

RECURSIVE CourseLists(_)
\* the ways to cut at most n results into consecutive non-empty semesters
CourseLists(n) ==
    IF n = 0 THEN { << >> }
    ELSE { << >> } \cup
         UNION { { << cs >> \o rest : rest \in CourseLists(n - Len(cs)) } :
                   cs \in SeqsUpTo(HistoryResults, n) \ { << >> } }

\* histories: semester k of the list is tagged k
Histories ==
    { [k \in 1..Len(h) |-> SemesterResult(k, h[k])] : h \in CourseLists(MaxResults) }

StudentProfile(sem, yr, earned, results) ==
    [current_semester |-> sem, current_year |-> yr,
     total_credits_earned |-> earned, semester_results |-> results]

LastSemester == 8

\* current_year = ceil(current_semester / 2), as the student file records it
YearOf(sem) == (sem + 1) \div 2

RECURSIVE PassedCredits(_)
PassedCredits(results) ==
    IF results = << >> THEN 0
    ELSE (IF Head(results).status = "passed" THEN Head(results).credits ELSE 0)
         + PassedCredits(Tail(results))

Students ==
    { StudentProfile(sem, YearOf(sem), PassedCredits(AllResults(h)), h) :
        sem \in 1..LastSemester, h \in Histories }

InitPool ==
    /\ pc = "pool_call"
    /\ ValidateIdle
    /\ ProjectIdle
    /\ student \in Students
    /\ selected_courses \in SubsetsUpTo(ManualCodes, MaxManual)
    /\ deselected_courses \in SubsetsUpTo(ManualCodes, MaxManual)
    /\ available = << >>
    /\ EnforceIdle
    /\ AdvisorIdle
    /\ SimulateIdle

\* the caller's  available_courses = course_pool_gen.generate_pool(student,
\* selected_courses, deselected_courses)
GeneratePool ==
    /\ pc = "pool_call"
    /\ available' = generate_pool(AllCourses, student, selected_courses,
                                  deselected_courses)
    /\ pc' = "pool_done"
    /\ UNCHANGED << projectVars, validateVars,
                    student, selected_courses, deselected_courses, enforceVars,
                    advisorVars, simulateVars >>

NextPool == GeneratePool

SpecPool == InitPool /\ [][NextPool]_vars

(***************************************************************************)
(* Claims about the pool generator (specification SpecPool).               *)
(***************************************************************************)
PoolCodes == { available[i].course_code : i \in 1..Len(available) }

PassedSet == Range(get_passed_courses(student))

\* codes with a failed result anywhere in the history, cleared or not
EverFailed ==
    Range(CodesWithStatus(AllResults(student.semester_results), "failed"))

\* C3: generate_pool returns no course whose code is in the student's passed
\* set, even if the code is manually selected or also recorded as failed.
C3_NoPassedInPool ==
    pc = "pool_done" => PoolCodes \cap PassedSet = {}

\* a passed code that is also manually selected and also recorded as failed
\* was kept out of a non-empty pool
C3_Witness ==
    /\ pc = "pool_done"
    /\ available # << >>
    /\ \E c \in PassedSet :
          /\ c \in selected_courses
          /\ c \in EverFailed
          /\ c \notin deselected_courses
          /\ c \notin PoolCodes

\* C4: a catalog course whose code is currently failed and not manually
\* deselected is in the pool whatever its year_level.
C4_FailedInPool ==
    pc = "pool_done" =>
        \A i \in 1..Len(AllCourses) :
            (/\ AllCourses[i].course_code \in get_failed_courses(student)
             /\ AllCourses[i].course_code \notin deselected_courses)
            => AllCourses[i] \in Range(available)

\* a failed course above the student's year, not manually selected, is in the
\* pool
C4_Witness ==
    /\ pc = "pool_done"
    /\ \E i \in 1..Len(AllCourses) :
          /\ AllCourses[i].course_code \in get_failed_courses(student)
          /\ AllCourses[i].course_code \notin selected_courses
          /\ AllCourses[i].year_level > student.current_year
          /\ AllCourses[i] \in Range(available)

\* the catalog courses the pool holds, in catalog order
RECURSIVE CatalogOrder(_, _)
CatalogOrder(courses, members) ==
    IF courses = << >> THEN << >>
    ELSE (IF Head(courses) \in members THEN << Head(courses) >> ELSE << >>)
         \o CatalogOrder(Tail(courses), members)

\* C5: priority of the rules: a deselected code is never in the pool; a
\* selected code that is neither passed nor deselected is in the pool whatever
\* its year; a course neither selected nor failed is in the pool iff it is not
\* passed, not deselected and year_level <= current_year; the pool keeps the
\* catalog's order.
C5_PoolPriority ==
    pc = "pool_done" =>
        /\ PoolCodes \cap deselected_courses = {}
        /\ \A i \in 1..Len(AllCourses) :
              LET c == AllCourses[i] IN
              /\ (/\ c.course_code \in selected_courses
                  /\ c.course_code \notin PassedSet
                  /\ c.course_code \notin deselected_courses)
                 => c \in Range(available)
              /\ (/\ c.course_code \notin selected_courses
                  /\ c.course_code \notin get_failed_courses(student))
                 => (c \in Range(available)
                       <=> /\ c.course_code \notin PassedSet
                           /\ c.course_code \notin deselected_courses
                           /\ c.year_level <= student.current_year)
        /\ available = CatalogOrder(AllCourses, Range(available))

\* one code is selected, deselected and failed and stays out, while another
\* selected code above the student's year is in
C5_Witness ==
    /\ pc = "pool_done"
    /\ \E c \in selected_courses \cap deselected_courses :
          c \in get_failed_courses(student) /\ c \notin PoolCodes
    /\ \E i \in 1..Len(AllCourses) :
          /\ AllCourses[i].course_code \in selected_courses
          /\ AllCourses[i].year_level > student.current_year
          /\ AllCourses[i] \in Range(available)

(***************************************************************************)
(* Constraint enforcer: LLMService._enforce_credit_limits                  *)
(* (src/src/services/llm_service.py:464-533)                               *)
(***************************************************************************)
\* ---- Python dict helpers ----
\* d.get(k, default)
DictGet(d, k, default) == IF k \in DOMAIN d THEN d[k] ELSE default

\* d[k] = v
DictPut(d, k, v) == [x \in DOMAIN d \cup {k} |-> IF x = k THEN v ELSE d[x]]

\* {c.course_code: c for c in courses}: a later course replaces an earlier one
\* of the same code
CourseMap(courses) ==
    [code \in { courses[i].course_code : i \in 1..Len(courses) } |->
        courses[CHOOSE i \in 1..Len(courses) :
                   /\ courses[i].course_code = code
                   /\ \A j \in (i+1)..Len(courses) : courses[j].course_code # code]]

CodesOf(courses) == [i \in 1..Len(courses) |-> courses[i].course_code]

RECURSIVE SumCredits(_)
\* sum(c.credits for c in courses)
SumCredits(courses) ==
    IF courses = << >> THEN 0
    ELSE Head(courses).credits + SumCredits(Tail(courses))

RECURSIVE RemoveFirst(_, _)
\* list.remove(x): drops the first element equal to x
RemoveFirst(s, x) ==
    IF s = << >> THEN << >>
    ELSE IF Head(s) = x THEN Tail(s)
         ELSE << Head(s) >> \o RemoveFirst(Tail(s), x)

\* ---- step 0: gating strip (lines 473-478) ----
\* both callers pass current_semester (lines 66 and 175), so the test
\* "current_semester is not None" is true
RECURSIVE KeepCodes(_, _, _)
KeepCodes(codes, course_map, semester) ==
    IF codes = << >> THEN << >>
    ELSE (IF /\ ~(Head(codes) = "Proj1" /\ semester # 7)
             /\ ~(Head(codes) = "Proj2" /\ semester # 8)
             /\ Head(codes) \in DOMAIN course_map
          THEN << Head(codes) >> ELSE << >>)
         \o KeepCodes(Tail(codes), course_map, semester)

\* ---- step 2: trim (lines 486-497) ----
\* sorted(selected, key=lambda x: x.credits, reverse=True): descending, and
\* courses of equal credits keep their order
RECURSIVE InsertByCredits(_, _)
\* places x after every leading course with at least its credits
InsertByCredits(sorted, x) ==
    IF sorted = << >> THEN << x >>
    ELSE IF Head(sorted).credits >= x.credits
         THEN << Head(sorted) >> \o InsertByCredits(Tail(sorted), x)
         ELSE << x >> \o sorted

RECURSIVE ByCreditsDescending(_)
ByCreditsDescending(selected) ==
    IF selected = << >> THEN << >>
    ELSE InsertByCredits(ByCreditsDescending(SubSeq(selected, 1, Len(selected) - 1)),
                         selected[Len(selected)])

RECURSIVE DropLoop(_, _, _, _)
\* the inner for loop over the sorted snapshot, for one drop_type; the state
\* carried is << selected, total >>
DropLoop(snapshot, st, drop_type, maxc) ==
    IF snapshot = << >> THEN st
    ELSE IF st[2] <= maxc THEN st
    ELSE IF Head(snapshot).type = drop_type
         THEN DropLoop(Tail(snapshot),
                       << RemoveFirst(st[1], Head(snapshot)),
                          st[2] - Head(snapshot).credits >>,
                       drop_type, maxc)
         ELSE DropLoop(Tail(snapshot), st, drop_type, maxc)

RECURSIVE DropLoopStrict(_, _, _, _)
DropLoopStrict(snapshot, st, drop_type, maxc) ==
    \* mutant: the loop stops only once the total is below max_credits
    IF snapshot = << >> THEN st
    ELSE IF st[2] < maxc THEN st
    ELSE IF Head(snapshot).type = drop_type
         THEN DropLoopStrict(Tail(snapshot),
                             << RemoveFirst(st[1], Head(snapshot)),
                                st[2] - Head(snapshot).credits >>,
                             drop_type, maxc)
         ELSE DropLoopStrict(Tail(snapshot), st, drop_type, maxc)

TrimsAtMax(selected, total, maxc) ==
    \* mutant: a total equal to max_credits is trimmed too
    IF total >= maxc
    THEN LET afterOE == DropLoopStrict(ByCreditsDescending(selected),
                                       << selected, total >>, "OE", maxc)
         IN  DropLoopStrict(ByCreditsDescending(afterOE[1]), afterOE, "DE", maxc)
    ELSE << selected, total >>

RECURSIVE DropLoopAnyType(_, _, _)
DropLoopAnyType(snapshot, st, maxc) ==
    \* mutant: the loop drops the largest courses whatever their type
    IF snapshot = << >> THEN st
    ELSE IF st[2] <= maxc THEN st
    ELSE DropLoopAnyType(Tail(snapshot),
                         << RemoveFirst(st[1], Head(snapshot)),
                            st[2] - Head(snapshot).credits >>, maxc)

TrimsAnyType(selected, total, maxc) ==
    \* mutant: no type is protected
    IF total > maxc
    THEN DropLoopAnyType(ByCreditsDescending(selected), << selected, total >>, maxc)
    ELSE << selected, total >>

TrimsDisciplineFirst(selected, total, maxc) ==
    \* mutant: priority_drop is ['DE', 'OE']
    IF total > maxc
    THEN LET afterDE == DropLoop(ByCreditsDescending(selected),
                                 << selected, total >>, "DE", maxc)
         IN  DropLoop(ByCreditsDescending(afterDE[1]), afterDE, "OE", maxc)
    ELSE << selected, total >>

Trim(selected, total, maxc) ==
    IF total > maxc
    THEN LET afterOE == DropLoop(ByCreditsDescending(selected),
                                 << selected, total >>, "OE", maxc)
         IN  DropLoop(ByCreditsDescending(afterOE[1]), afterOE, "DE", maxc)
    ELSE << selected, total >>

\* ---- step 3: pad (lines 499-513) ----
MandatoryTypes == {"DC", "FC", "DLES"}

\* key=lambda x: (0 if x.type in [DC, FC, DLES] else 1, x.difficulty), compared
\* as Python compares tuples
PadGroup(c) == IF c.type \in MandatoryTypes THEN 0 ELSE 1

PadBefore(a, b) ==
    \/ PadGroup(a) < PadGroup(b)
    \/ PadGroup(a) = PadGroup(b) /\ a.difficulty <= b.difficulty

RECURSIVE InsertByPadKey(_, _)
\* places x after every leading course whose key does not exceed its own
InsertByPadKey(sorted, x) ==
    IF sorted = << >> THEN << x >>
    ELSE IF PadBefore(Head(sorted), x)
         THEN << Head(sorted) >> \o InsertByPadKey(Tail(sorted), x)
         ELSE << x >> \o sorted

RECURSIVE ByPadKey(_)
\* sorted(candidates, key=...): ascending, courses of equal key keep their order
ByPadKey(candidates) ==
    IF candidates = << >> THEN << >>
    ELSE InsertByPadKey(ByPadKey(SubSeq(candidates, 1, Len(candidates) - 1)),
                        candidates[Len(candidates)])

RECURSIVE NotAlreadyIn(_, _)
\* [c for c in available_courses if c.course_code not in already_in]
NotAlreadyIn(courses, already_in) ==
    IF courses = << >> THEN << >>
    ELSE (IF Head(courses).course_code \notin already_in
          THEN << Head(courses) >> ELSE << >>)
         \o NotAlreadyIn(Tail(courses), already_in)

RECURSIVE PadLoopPastMax(_, _, _, _)
PadLoopPastMax(candidates, st, minc, maxc) ==
    \* mutant: a candidate is appended whether or not it fits under max_credits
    IF candidates = << >> THEN st
    ELSE IF st[2] >= minc THEN st
    ELSE PadLoopPastMax(Tail(candidates),
                        << Append(st[1], Head(candidates)),
                           st[2] + Head(candidates).credits >>, minc, maxc)

RECURSIVE PadLoop(_, _, _, _)
PadLoop(candidates, st, minc, maxc) ==
    IF candidates = << >> THEN st
    ELSE IF st[2] >= minc THEN st
    ELSE IF st[2] + Head(candidates).credits <= maxc
         THEN PadLoop(Tail(candidates),
                      << Append(st[1], Head(candidates)),
                         st[2] + Head(candidates).credits >>, minc, maxc)
         ELSE PadLoop(Tail(candidates), st, minc, maxc)

Pad(selected, total, courses, minc, maxc) ==
    IF total < minc
    THEN PadLoop(ByPadKey(NotAlreadyIn(courses, Range(CodesOf(selected)))),
                 << selected, total >>, minc, maxc)
    ELSE << selected, total >>

\* ---- step 5: breakdown resync (lines 519-531) ----
SyncBreakdown(breakdown, final_codes) ==
    LET b1 == DictPut(breakdown, "mandatory",
                      FilterSeq(DictGet(breakdown, "mandatory", << >>), final_codes))
        b2 == DictPut(b1, "electives",
                      FilterSeq(DictGet(b1, "electives", << >>), final_codes))
    IN  IF "project_courses" \in DOMAIN b2
        THEN DictPut(b2, "project_courses",
                     FilterSeq(b2["project_courses"], final_codes))
        ELSE b2

\* ---- the whole of _enforce_credit_limits ----
TrustsClaimedTotal(selected, claimed) ==
    \* mutant: the proposal's stated total is kept
    claimed

\* step 1 (lines 480-483): the total is recomputed from the course objects; the
\* proposal's stated total is not read
RecomputedTotal(selected, claimed) == SumCredits(selected)

\* step 4 (lines 515-517)
WithinLimits(total, minc, maxc) == minc <= total /\ total <= maxc

\* Returns [rec |-> the dict after the in-place edits, ret |-> the return value].
enforce_credit_limits(r, courses, minc, maxc, semester) ==
    LET course_map == CourseMap(courses)
        codes      == KeepCodes(DictGet(r, "courses", << >>), course_map, semester)
        selected   == [i \in 1..Len(codes) |-> course_map[codes[i]]]
        total      == RecomputedTotal(selected, DictGet(r, "total_credits", 0))
        r1         == DictPut(DictPut(r, "total_credits", total), "courses", codes)
        trimmed    == Trim(selected, total, maxc)
        padded     == Pad(trimmed[1], trimmed[2], courses, minc, maxc)
        \* lines 496-497 and 512-513: rec['courses'] and rec['total_credits'] follow
        \* selected and total (where an if-block is skipped they already agree)
        r3         == DictPut(DictPut(r1, "courses", CodesOf(padded[1])),
                              "total_credits", padded[2])
        r4         == IF "breakdown" \in DOMAIN r3
                      THEN DictPut(r3, "breakdown",
                                   SyncBreakdown(r3["breakdown"], Range(r3["courses"])))
                      ELSE r3
    IN  IF ~WithinLimits(padded[2], minc, maxc)
        THEN [rec |-> r3, ret |-> NoDict]
        ELSE [rec |-> r4, ret |-> Some(r4)]

\* ---- inputs of the enforcer ----
RECURSIVE SubSequences(_)
\* the lists a filter over s can give: a pool is a sub-sequence of the catalog
SubSequences(s) ==
    IF s = << >> THEN { << >> }
    ELSE LET rest == SubSequences(Tail(s))
         IN  rest \cup { << Head(s) >> \o t : t \in rest }

\* the total an advisor claims: its own sum over the whole catalog
ClaimedTotal(codes) ==
    SumCredits([i \in 1..Len(codes) |-> CatalogCourse(codes[i])])

\* the breakdown shapes an advisor sends: none, every category list, or only
\* the failed-course list
BreakdownShapes(codes) ==
    { [total_credits |-> ClaimedTotal(codes), courses |-> codes],
      [total_credits |-> ClaimedTotal(codes), courses |-> codes,
       breakdown |-> [mandatory |-> codes, electives |-> codes,
                      project_courses |-> codes,
                      failed_courses_included |-> codes]],
      [total_credits |-> ClaimedTotal(codes), courses |-> codes,
       breakdown |-> [failed_courses_included |-> codes]] }

Proposals == UNION { BreakdownShapes(codes) : codes \in SeqsUpTo(Codes, MaxProposal) }

\* << min_credits, max_credits >> as the sidebar sets them
CreditLimits == { << 5, 6 >>, << 4, 7 >> }

\* the limits of the enforcer's runs: those, and a pair so low that two
\* electives exceed it
EnforceLimits == CreditLimits \cup { << 1, 2 >> }

\* semesters: one without a project course, the Proj1 and the Proj2 semester
Semesters == { 6, 7, 8 }

InitEnforce ==
    /\ pc = "enforce_call"
    /\ ValidateIdle
    /\ ProjectIdle
    /\ PoolIdle
    /\ AdvisorIdle
    /\ SimulateIdle
    /\ available_courses \in SubSequences(AllCourses)
    /\ \E lim \in EnforceLimits : min_credits = lim[1] /\ max_credits = lim[2]
    /\ current_semester \in Semesters
    /\ proposal \in Proposals
    /\ rec = proposal
    /\ result = NoDict

\* rec = self._enforce_credit_limits(rec, available_courses, min_credits,
\* max_credits, current_semester=...)
EnforceCreditLimits ==
    /\ pc = "enforce_call"
    /\ LET out == enforce_credit_limits(rec, available_courses, min_credits,
                                        max_credits, current_semester)
       IN  rec' = out.rec /\ result' = out.ret
    /\ pc' = "enforce_done"
    /\ UNCHANGED << projectVars, validateVars,
                    poolVars, advisorVars, simulateVars, available_courses,
                    min_credits, max_credits, current_semester, proposal >>

NextEnforce == EnforceCreditLimits

SpecEnforce == InitEnforce /\ [][NextEnforce]_vars

(***************************************************************************)
(* Claims about the enforcer (specification SpecEnforce).                  *)
(***************************************************************************)
Survived == pc = "enforce_done" /\ result # NoDict

\* the authoritative credits of a code list: the credits of the courses the
\* codes name in available_courses
RECURSIVE AuthoritativeSum(_, _)
AuthoritativeSum(codes, course_map) ==
    IF codes = << >> THEN 0
    ELSE course_map[Head(codes)].credits + AuthoritativeSum(Tail(codes), course_map)

\* C1: _enforce_credit_limits returns None or a recommendation whose
\* total_credits is the sum of the authoritative credits of its courses and
\* lies in [min_credits, max_credits].
C1_RepairedTotals ==
    Survived =>
        LET r == result[1] IN
        /\ Range(r.courses) \subseteq DOMAIN CourseMap(available_courses)
        /\ r.total_credits = AuthoritativeSum(r.courses, CourseMap(available_courses))
        /\ min_credits <= r.total_credits
        /\ r.total_credits <= max_credits

\* a proposal that lost an available course to the trim and gained another
\* from the pad survived, with a total other than the one it claimed
C1_Witness ==
    /\ Survived
    /\ result[1].total_credits # proposal.total_credits
    /\ \E c \in Range(proposal.courses) :
          /\ c \in DOMAIN CourseMap(available_courses)
          /\ c \notin Range(result[1].courses)
    /\ \E c \in Range(result[1].courses) : c \notin Range(proposal.courses)

\* C2: a surviving recommendation holds Proj1 only in semester 7 and Proj2
\* only in semester 8, whatever available_courses contains.
C2_NoMisgatedProject ==
    Survived =>
        /\ "Proj1" \in Range(result[1].courses) => current_semester = 7
        /\ "Proj2" \in Range(result[1].courses) => current_semester = 8

\* the proposal is already valid: every code is available, no project course
\* is out of its semester, and the true sum is within the limits
AlreadyValid ==
    /\ Range(proposal.courses) \subseteq DOMAIN CourseMap(available_courses)
    /\ "Proj1" \in Range(proposal.courses) => current_semester = 7
    /\ "Proj2" \in Range(proposal.courses) => current_semester = 8
    /\ WithinLimits(AuthoritativeSum(proposal.courses, CourseMap(available_courses)),
                    min_credits, max_credits)

BreakdownKeys ==
    {"mandatory", "electives", "project_courses", "failed_courses_included"}

\* every code of every breakdown list of the proposal is in its courses
BreakdownWithinCourses ==
    "breakdown" \in DOMAIN proposal =>
        \A k \in BreakdownKeys :
            Range(DictGet(proposal.breakdown, k, << >>)) \subseteq Range(proposal.courses)

\* C6: enforcing an already valid recommendation returns it with the same
\* courses in the same order and the same (true) total; its breakdown lists
\* are unchanged when all their codes are in courses.
C6_Idempotent ==
    (pc = "enforce_done" /\ AlreadyValid) =>
        /\ result # NoDict
        /\ result[1].courses = proposal.courses
        /\ result[1].total_credits =
              AuthoritativeSum(proposal.courses, CourseMap(available_courses))
        /\ ("breakdown" \in DOMAIN result[1]) = ("breakdown" \in DOMAIN proposal)
        /\ ("breakdown" \in DOMAIN proposal /\ BreakdownWithinCourses) =>
              \A k \in BreakdownKeys :
                  DictGet(result[1].breakdown, k, << >>)
                    = DictGet(proposal.breakdown, k, << >>)

\* a valid proposal with an elective that the trim could take and with room
\* and spare available courses that the pad could add came back as it was
C6_Witness ==
    /\ pc = "enforce_done"
    /\ AlreadyValid
    /\ "breakdown" \in DOMAIN proposal
    /\ "OE1" \in Range(proposal.courses)
    /\ result[1].total_credits < max_credits
    /\ \E i \in 1..Len(available_courses) :
          /\ available_courses[i].course_code \notin Range(proposal.courses)
          /\ result[1].total_credits + available_courses[i].credits <= max_credits
    /\ result[1].courses = proposal.courses

(***************************************************************************)
(* Fallback generator: LLMService._create_fallback_recommendations         *)
(* (src/src/services/llm_service.py:671-718)                               *)
(***************************************************************************)
RECURSIVE OfTypes(_, _)
\* [c for c in available_courses if c.type in types]
OfTypes(courses, types) ==
    IF courses = << >> THEN << >>
    ELSE (IF Head(courses).type \in types THEN << Head(courses) >> ELSE << >>)
         \o OfTypes(Tail(courses), types)

RECURSIVE InsertByDifficulty(_, _)
InsertByDifficulty(sorted, x) ==
    IF sorted = << >> THEN << x >>
    ELSE IF Head(sorted).difficulty <= x.difficulty
         THEN << Head(sorted) >> \o InsertByDifficulty(Tail(sorted), x)
         ELSE << x >> \o sorted

RECURSIVE ByDifficulty(_)
\* sorted(mandatory, key=lambda x: x.difficulty)
ByDifficulty(courses) ==
    IF courses = << >> THEN << >>
    ELSE InsertByDifficulty(ByDifficulty(SubSeq(courses, 1, Len(courses) - 1)),
                            courses[Len(courses)])

RECURSIVE AddProjects(_, _, _)
\* lines 689-692; the state carried is << rec1_courses, rec1_credits >>
AddProjects(projects, st, maxc) ==
    IF projects = << >> THEN st
    ELSE IF st[2] + Head(projects).credits <= maxc
         THEN AddProjects(Tail(projects),
                          << Append(st[1], Head(projects)),
                             st[2] + Head(projects).credits >>, maxc)
         ELSE AddProjects(Tail(projects), st, maxc)

RECURSIVE AddMandatory(_, _, _, _)
\* lines 695-700: the break is tested after the course was considered
AddMandatory(mandatory, st, minc, maxc) ==
    IF mandatory = << >> THEN st
    ELSE LET c    == Head(mandatory)
             next == IF st[2] + c.credits <= maxc
                     THEN << Append(st[1], c), st[2] + c.credits >>
                     ELSE st
         IN  IF next[2] >= minc THEN next
             ELSE AddMandatory(Tail(mandatory), next, minc, maxc)

\* the dict of rank 1 (lines 703-716); the free-text fields reasoning and
\* suitability are left out
FallbackRec(rec1_courses, rec1_credits, is_project_semester) ==
    [rank |-> 1,
     strategy_name |-> IF is_project_semester THEN "PROJECT + COMPLETION"
                       ELSE "GRADUATION FOCUSED",
     courses |-> CodesOf(rec1_courses),
     total_credits |-> rec1_credits,
     breakdown |->
        [mandatory |-> CodesOf(OfTypes(rec1_courses, MandatoryTypes)),
         electives |-> CodesOf(OfTypes(rec1_courses, {"DE", "OE"})),
         project_courses |-> CodesOf(OfTypes(rec1_courses, {"PR"})),
         failed_courses_included |-> << >>]]

FallbackWithoutFloor(courses, minc, maxc, is_project_semester) ==
    \* mutant: the strategy is appended whatever its total
    LET mandatory == OfTypes(courses, MandatoryTypes)
        projects  == OfTypes(courses, {"PR"})
        withProj  == IF is_project_semester /\ projects # << >>
                     THEN AddProjects(ByCreditsDescending(projects),
                                      << << >>, 0 >>, maxc)
                     ELSE << << >>, 0 >>
        final     == AddMandatory(ByDifficulty(mandatory), withProj, minc, maxc)
    IN  [recommendations |->
            << FallbackRec(final[1], final[2], is_project_semester) >>]

create_fallback_recommendations(courses, minc, maxc, is_project_semester) ==
    LET mandatory == OfTypes(courses, MandatoryTypes)
        projects  == OfTypes(courses, {"PR"})
        withProj  == IF is_project_semester /\ projects # << >>
                     THEN AddProjects(ByCreditsDescending(projects),
                                      << << >>, 0 >>, maxc)
                     ELSE << << >>, 0 >>
        final     == AddMandatory(ByDifficulty(mandatory), withProj, minc, maxc)
    IN  [recommendations |->
            IF final[2] >= minc
            THEN << FallbackRec(final[1], final[2], is_project_semester) >>
            ELSE << >>]

(***************************************************************************)
(* Advisor call: LLMService.generate_recommendations                       *)
(* (src/src/services/llm_service.py:15-89)                                 *)
(***************************************************************************)
\* The response text, as the tokens the parsing tells apart: the two braces,
\* the member "recommendations": [...], the literal null, and other prose.
Tokens == {"{", "}", "recs", "null", "txt"}

\* content.find('{'), counted from 1; 0 when there is none
FindFirst(content, tok) ==
    IF \E i \in 1..Len(content) : content[i] = tok
    THEN CHOOSE i \in 1..Len(content) :
            /\ content[i] = tok
            /\ \A j \in 1..(i-1) : content[j] # tok
    ELSE 0

\* content.rfind('}'), counted from 1; 0 when there is none
FindLast(content, tok) ==
    IF \E i \in 1..Len(content) : content[i] = tok
    THEN CHOOSE i \in 1..Len(content) :
            /\ content[i] = tok
            /\ \A j \in (i+1)..Len(content) : content[j] # tok
    ELSE 0

\* lines 54-59: the text handed to json.loads
JsonText(content) ==
    LET json_start == FindFirst(content, "{") - 1
        json_end   == FindLast(content, "}")
    IN  IF json_start # -1 /\ json_end > json_start
        THEN SubSeq(content, json_start + 1, json_end)
        ELSE content

\* json.loads on the tokens: "dict" for an object whose members are all
\* "recommendations" members (a repeated key is legal JSON), "null" for the
\* literal, "error" (JSONDecodeError) for anything else
JsonLoads(text) ==
    IF /\ Len(text) >= 2
       /\ text[1] = "{"
       /\ text[Len(text)] = "}"
       /\ \A i \in 2..(Len(text) - 1) : text[i] = "recs"
    THEN [kind |-> "dict", has_key |-> Len(text) > 2]
    ELSE IF text = << "null" >>
         THEN [kind |-> "null", has_key |-> FALSE]
         ELSE [kind |-> "error", has_key |-> FALSE]

\* is_project_semester (line 28)
IsProjectSemester(s) == s.current_semester >= 7

RECURSIVE StopsAtFirstDiscard(_, _, _, _, _)
StopsAtFirstDiscard(recs, courses, minc, maxc, semester) ==
    \* mutant: a discarded strategy ends the loop
    IF recs = << >> THEN << >>
    ELSE LET out == enforce_credit_limits(Head(recs), courses, minc, maxc, semester)
         IN  IF out.ret # NoDict
             THEN << out.ret[1] >>
                  \o StopsAtFirstDiscard(Tail(recs), courses, minc, maxc, semester)
             ELSE << >>

RECURSIVE EnforceAll(_, _, _, _, _)
\* lines 62-69: fixed_recs, the survivors in order
EnforceAll(recs, courses, minc, maxc, semester) ==
    IF recs = << >> THEN << >>
    ELSE LET out == enforce_credit_limits(Head(recs), courses, minc, maxc, semester)
         IN  (IF out.ret # NoDict THEN << out.ret[1] >> ELSE << >>)
             \o EnforceAll(Tail(recs), courses, minc, maxc, semester)

OnlyDecodeErrorsCaught(exception) ==
    \* mutant: the outer handler is missing
    IF exception = "JSONDecodeError" THEN "fallback" ELSE "raise"

\* what becomes of an exception raised inside the outer try block: the inner
\* handler (line 78) takes a JSONDecodeError, the outer one (line 85) every
\* Exception; both return the fallback
Handler(exception) == "fallback"

\* line 61 is false: no branch replaces the parsed dict, and line 83 returns
\* it as json.loads gave it
OnMissingKey(parsed, fallback) == parsed

\* The part of generate_recommendations after the advisor call (lines 51-89).
\* resp is [raised |-> the exception of the call or None,
\*          content |-> the text as tokens, or NoDict for a None content,
\*          recs |-> the list of the "recommendations" member].
\* Returns [kind |-> "return", value |-> the dict returned]; the kinds "raise"
\* and "retry" stand for an exception that leaves the method and for a second
\* call, which the handlers of the code never choose.
after_advisor_call(resp, s, courses, minc, maxc) ==
    LET fallback == create_fallback_recommendations(courses, minc, maxc,
                                                    IsProjectSemester(s))
        handled(exception) ==
            IF Handler(exception) = "fallback"
            THEN [kind |-> "return", value |-> fallback]
            ELSE [kind |-> Handler(exception), value |-> exception]
    IN  IF resp.raised # None THEN handled(resp.raised)
        ELSE IF resp.content = NoDict
        THEN handled("AttributeError")     \* None.find
        ELSE LET parsed == JsonLoads(JsonText(resp.content[1])) IN
             IF parsed.kind = "error" THEN handled("JSONDecodeError")
             ELSE IF parsed.kind = "null"
             THEN handled("TypeError")     \* 'recommendations' in None
             ELSE IF ~parsed.has_key
             THEN [kind |-> "return",
                   value |-> OnMissingKey([x \in {} |-> << >>], fallback)]
             ELSE LET fixed_recs == EnforceAll(resp.recs, courses, minc, maxc,
                                               s.current_semester)
                  IN  IF fixed_recs # << >>
                      THEN [kind |-> "return",
                            value |-> [recommendations |-> fixed_recs]]
                      ELSE [kind |-> "return", value |-> fallback]

\* ---- inputs ----
\* strategies an advisor proposes, ranked by their place in the list
Strategies == { << "DC1", "OE1" >>, << "DC1", "Proj2" >>, << "OE1", "OE1" >> }

StrategyLists == SeqsUpTo(Strategies, MaxRecs)

RankedRecs(list) ==
    [i \in 1..Len(list) |->
        [rank |-> i, courses |-> list[i], total_credits |-> ClaimedTotal(list[i])]]

Contents == SeqsUpTo(Tokens, MaxContent)

\* the exceptions client.chat.completions.create raises
CallErrors == {"APITimeoutError", "APIConnectionError"}

\* the responses: an exception, a None content, or a text; the text carries a
\* list of strategies only where json.loads finds the member
Responses ==
    { [raised |-> e, content |-> NoDict, recs |-> << >>] : e \in CallErrors }
    \cup { [raised |-> None, content |-> NoDict, recs |-> << >>] }
    \cup UNION { { [raised |-> None, content |-> << c >>, recs |-> RankedRecs(l)] :
                     l \in IF JsonLoads(JsonText(c)).has_key
                           THEN StrategyLists ELSE { << >> } } :
                 c \in Contents }

\* students of the semesters the project gating tells apart, without history
GenerateStudents ==
    { StudentProfile(sem, YearOf(sem), 0, << >>) : sem \in Semesters }

\* << student, available courses, << min, max >> >> as the recommendations tab
\* passes them (src/src/ui/recommendations.py:63-76)
Requests ==
    { << s, generate_pool(AllCourses, s, {}, d), lim >> :
        s \in GenerateStudents, d \in SubsetsUpTo(ManualCodes, MaxManual),
        lim \in CreditLimits }

InitGenerate ==
    /\ pc = "generate_call"
    /\ ValidateIdle
    /\ ProjectIdle
    /\ student \in GenerateStudents
    /\ selected_courses = {}
    /\ deselected_courses \in SubsetsUpTo(ManualCodes, MaxManual)
    /\ available = generate_pool(AllCourses, student, selected_courses,
                                 deselected_courses)
    /\ available_courses = available
    /\ \E lim \in CreditLimits : min_credits = lim[1] /\ max_credits = lim[2]
    /\ current_semester = student.current_semester
    /\ proposal = None
    /\ rec = None
    /\ result = NoDict
    /\ AdvisorIdle
    /\ SimulateIdle

\* lines 51-89 for every request and response, each outcome computed once
RequestOutcome ==
    [q \in Requests |->
        [resp \in Responses |->
            after_advisor_call(resp, q[1], q[2], q[3][1], q[3][2])] @@ << >>]
    @@ << >>

\* the Generate Recommendations button is pressed again
\* (src/src/ui/recommendations.py:60-76)
StartRequest ==
    /\ pc = "generate_returned"
    /\ pc' = "generate_call"
    /\ response' = NoDict
    /\ advisor_calls' = 0
    /\ recommendations' = NoDict
    /\ UNCHANGED << projectVars, validateVars, poolVars, enforceVars, simulateVars >>

\* lines 16-49: the prompts are built and the call is sent; the request
\* blocks in client.chat.completions.create
CallAdvisor ==
    /\ pc = "generate_call"
    /\ pc' = "generate_awaiting"
    /\ advisor_calls' = advisor_calls + 1
    /\ UNCHANGED << projectVars, validateVars,
                    poolVars, enforceVars, simulateVars, response, recommendations >>

\* the advisor's side: the blocking call ends, by an exception or with a
\* response
AdvisorResponds ==
    /\ pc = "generate_awaiting"
    /\ response' \in Responses
    /\ pc' = "generate_answered"
    /\ UNCHANGED << projectVars, validateVars,
                    poolVars, enforceVars, simulateVars, advisor_calls, recommendations >>

\* lines 51-89: the rest of generate_recommendations
FinishRequest ==
    /\ pc = "generate_answered"
    /\ \E out \in { RequestOutcome[<< student, available_courses,
                                      << min_credits, max_credits >> >>][response] } :
           /\ recommendations' = IF out.kind = "return" THEN Some(out.value)
                                 ELSE NoDict
           /\ pc' = CASE out.kind = "return" -> "generate_returned"
                      [] out.kind = "retry"  -> "generate_call"
                      [] OTHER               -> "generate_raised"
    /\ UNCHANGED << projectVars, validateVars,
                    poolVars, enforceVars, simulateVars, response, advisor_calls >>

NextGenerate == StartRequest \/ CallAdvisor \/ AdvisorResponds \/ FinishRequest

SpecGenerate == InitGenerate /\ [][NextGenerate]_vars

\* the code runs on once the button is pressed, and the blocking call ends
\* with a response or an exception
FairSpecGenerate ==
    SpecGenerate /\ WF_vars(CallAdvisor \/ AdvisorResponds \/ FinishRequest)

(***************************************************************************)
(* Claims about the advisor call (SpecGenerate, FairSpecGenerate).         *)
(***************************************************************************)
\* the fallback for the request's pool, limits and semester
ExpectedFallback ==
    create_fallback_recommendations(available_courses, min_credits, max_credits,
                                    student.current_semester >= 7)

Answered == pc \in {"generate_returned", "generate_raised"}

\* the response is a text that json.loads turns into a dict without the key
ParsedWithoutKey ==
    /\ response.raised = None
    /\ response.content # NoDict
    /\ JsonLoads(JsonText(response.content[1])).kind = "dict"
    /\ ~JsonLoads(JsonText(response.content[1])).has_key

\* C7: a response that parses to structured data without the top-level
\* 'recommendations' key makes generate_recommendations return the fallback
\* generator's output.
C7_MissingKeyFallsBack ==
    (Answered /\ ParsedWithoutKey) =>
        /\ pc = "generate_returned"
        /\ recommendations = Some(ExpectedFallback)

\* the call raised, or gave no text, or a text json.loads rejects
CallFailedOrUnparseable ==
    \/ response.raised # None
    \/ response.content = NoDict
    \/ JsonLoads(JsonText(response.content[1])).kind = "error"

C8_Safety ==
    /\ pc # "generate_raised"
    /\ advisor_calls <= 1
    /\ (Answered /\ CallFailedOrUnparseable) =>
          /\ pc = "generate_returned"
          /\ advisor_calls = 1
          /\ recommendations = Some(ExpectedFallback)

\* C8: when the advisor call raises or its response is not parseable,
\* generate_recommendations makes no second call, does not raise and returns
\* exactly the fallback for the same courses and limits; a request makes at
\* most one advisor call and always ends with a result.
C8_FallbackAlways ==
    /\ [] C8_Safety
    /\ (pc = "generate_call") ~> (pc = "generate_returned" /\ recommendations # NoDict)

\* a timed-out call was answered with a non-empty fallback
C8_Witness ==
    /\ pc = "generate_returned"
    /\ response.raised = "APITimeoutError"
    /\ advisor_calls = 1
    /\ recommendations = Some(ExpectedFallback)
    /\ ExpectedFallback.recommendations # << >>

(***************************************************************************)
(* Cascading simulator: LLMService._simulate_cascading_completion          *)
(* (src/src/services/llm_service.py:200-227)                               *)
(***************************************************************************)
\* Python objects live at addresses of the heap; a field that holds an object
\* holds its address, and a list holds the addresses of its items.
StudentObject(sem, yr, earned, results_ref) ==
    [cls |-> "StudentProfile", current_semester |-> sem, current_year |-> yr,
     total_credits_earned |-> earned, semester_results |-> results_ref]

ListObject(items) == [cls |-> "list", items |-> items]

SemesterObject(sem, courses_ref) ==
    [cls |-> "SemesterResult", semester |-> sem, courses |-> courses_ref]

CourseObject(code, gr, cr, st) ==
    [cls |-> "CourseResult", course_code |-> code, grade |-> gr,
     credits |-> cr, status |-> st]

RECURSIVE NewCourseObjects(_, _, _)
\* [CourseResult(**c) for c in ...]: << heap, addresses of the new objects >>
NewCourseObjects(h, courses, refs) ==
    IF courses = << >> THEN << h, refs >>
    ELSE NewCourseObjects(
            Append(h, CourseObject(Head(courses).course_code, Head(courses).grade,
                                   Head(courses).credits, Head(courses).status)),
            Tail(courses), Append(refs, Len(h) + 1))

\* SemesterResult(semester=sem, courses=[...]): << heap, address >>
NewSemesterObject(h, sem, courses) ==
    LET made == NewCourseObjects(h, courses, << >>)
        h1   == Append(made[1], ListObject(made[2]))
        h2   == Append(h1, SemesterObject(sem, Len(h1)))
    IN  << h2, Len(h2) >>

RECURSIVE NewSemesterObjects(_, _, _)
NewSemesterObjects(h, sems, refs) ==
    IF sems = << >> THEN << h, refs >>
    ELSE LET made == NewSemesterObject(h, Head(sems).semester, Head(sems).courses)
         IN  NewSemesterObjects(made[1], Tail(sems), Append(refs, made[2]))

\* StudentProfile.from_dict (student.py:28-45): << heap, address of the profile >>
from_dict(h, data) ==
    LET made == NewSemesterObjects(h, data.semester_results, << >>)
        h1   == Append(made[1], ListObject(made[2]))
        h2   == Append(h1, StudentObject(data.current_semester, data.current_year,
                                         data.total_credits_earned, Len(h1)))
    IN  << h2, Len(h2) >>

\* the value of the profile at ref: its fields, lists and nested results
ProfileValue(h, ref) ==
    LET sems == h[h[ref].semester_results].items
        CoursesOf(sem_ref) ==
            LET items == h[h[sem_ref].courses].items
            IN  [j \in 1..Len(items) |->
                    CourseResult(h[items[j]].course_code, h[items[j]].grade,
                                 h[items[j]].credits, h[items[j]].status)]
    IN  StudentProfile(h[ref].current_semester, h[ref].current_year,
                       h[ref].total_credits_earned,
                       [i \in 1..Len(sems) |->
                           SemesterResult(h[sems[i]].semester, CoursesOf(sems[i]))])

\* the addresses an object holds
RefsOf(obj) ==
    CASE obj.cls = "StudentProfile" -> { obj.semester_results }
      [] obj.cls = "list"           -> Range(obj.items)
      [] obj.cls = "SemesterResult" -> { obj.courses }
      [] OTHER                      -> {}

RECURSIVE ReachableFrom(_, _)
ReachableFrom(h, refs) ==
    LET more == refs \cup UNION { RefsOf(h[a]) : a \in refs }
    IN  IF more = refs THEN refs ELSE ReachableFrom(h, more)

\* the object with every address it holds replaced by its copy's
Readdressed(obj, memo) ==
    CASE obj.cls = "StudentProfile" ->
            [obj EXCEPT !.semester_results = memo[obj.semester_results]]
      [] obj.cls = "list" ->
            [obj EXCEPT !.items = [i \in 1..Len(obj.items) |-> memo[obj.items[i]]]]
      [] obj.cls = "SemesterResult" ->
            [obj EXCEPT !.courses = memo[obj.courses]]
      [] OTHER -> obj

ShallowCopy(h, ref) ==
    \* mutant: copy.copy, a new profile that shares the semester_results list
    << Append(h, h[ref]), Len(h) + 1 >>

\* copy.deepcopy (line 205): every object reachable from ref is copied once,
\* and the copies refer to each other; << heap, address of the copy of ref >>
deepcopy(h, ref) ==
    LET reach == ReachableFrom(h, { ref })
        memo  == [a \in reach |-> Len(h) + Cardinality({ b \in reach : b <= a })]
        copies == [k \in 1..Cardinality(reach) |->
                      Readdressed(h[CHOOSE a \in reach : memo[a] = Len(h) + k], memo)]
    IN  << h \o copies, memo[ref] >>

CountsAnyCode(code, course_map) ==
    \* mutant: the comprehensions have no filter
    TRUE

\* the filter of lines 208 and 214: if code in course_map
InCourseMap(code, course_map) == code \in DOMAIN course_map

RECURSIVE CompletedInMap(_, _)
\* the codes the two comprehensions keep, in order
CompletedInMap(completed, course_map) ==
    IF completed = << >> THEN << >>
    ELSE (IF InCourseMap(Head(completed), course_map)
          THEN << Head(completed) >> ELSE << >>)
         \o CompletedInMap(Tail(completed), course_map)

\* mutant: the synthetic SemesterResult is tagged with the target semester
TagsTargetSemester(h, ref, completed, all_courses, target) ==
    LET copied     == deepcopy(h, ref)
        simulated  == copied[2]
        course_map == CourseMap(all_courses)
        kept       == CompletedInMap(completed, course_map)
        new_credits == SumSeq([i \in 1..Len(kept) |-> course_map[kept[i]].credits])
        h1         == [copied[1] EXCEPT ![simulated].total_credits_earned =
                                            @ + new_credits]
        new_courses == [i \in 1..Len(kept) |->
                           CourseResult(kept[i], "A", course_map[kept[i]].credits,
                                        "passed")]
        made       == NewSemesterObject(h1, IF target # NoDict THEN target[1]
                                            ELSE h1[ref].current_semester,
                                        new_courses)
        results    == h1[simulated].semester_results
        h2         == IF new_courses # << >>
                      THEN [made[1] EXCEPT ![results].items = Append(@, made[2])]
                      ELSE h1
        h3         == IF target # NoDict
                      THEN [h2 EXCEPT ![simulated].current_semester = target[1],
                                      ![simulated].current_year =
                                          (target[1] + 1) \div 2]
                      ELSE h2
    IN  [kind |-> "return", heap |-> h3, ref |-> simulated]

\* The whole method.  Returns [kind |-> "return", heap, ref |-> the simulated
\* profile], or [kind |-> "raise"] for the KeyError of course_map[code].
simulate_cascading_completion(h, ref, completed, all_courses, target) ==
    LET copied     == deepcopy(h, ref)
        simulated  == copied[2]
        course_map == CourseMap(all_courses)
        kept       == CompletedInMap(completed, course_map)
        new_credits == SumSeq([i \in 1..Len(kept) |-> course_map[kept[i]].credits])
        h1         == [copied[1] EXCEPT ![simulated].total_credits_earned =
                                            @ + new_credits]
        new_courses == [i \in 1..Len(kept) |->
                           CourseResult(kept[i], "A", course_map[kept[i]].credits,
                                        "passed")]
        made       == NewSemesterObject(h1, h1[ref].current_semester, new_courses)
        results    == h1[simulated].semester_results
        h2         == IF new_courses # << >>
                      THEN [made[1] EXCEPT ![results].items = Append(@, made[2])]
                      ELSE h1
        h3         == IF target # NoDict
                      THEN [h2 EXCEPT ![simulated].current_semester = target[1],
                                      ![simulated].current_year =
                                          (target[1] + 1) \div 2]
                      ELSE h2
    IN  IF \E i \in 1..Len(kept) : kept[i] \notin DOMAIN course_map
        THEN [kind |-> "raise", heap |-> h, ref |-> 0]
        ELSE [kind |-> "return", heap |-> h3, ref |-> simulated]

\* an edit of one object, by a caller that holds the simulated profile
Edited(obj) ==
    CASE obj.cls = "StudentProfile" ->
            [obj EXCEPT !.total_credits_earned = 0, !.current_semester = 1,
                        !.current_year = 1]
      [] obj.cls = "list" -> [obj EXCEPT !.items = << >>]
      [] obj.cls = "SemesterResult" -> [obj EXCEPT !.semester = 0]
      [] OTHER -> [obj EXCEPT !.status = "failed", !.grade = "F", !.credits = 0]

\* ---- inputs ----
\* the student of the session, in a semester that has future semesters
SimulatedStudents ==
    { StudentProfile(6, YearOf(6), PassedCredits(AllResults(h)), h) :
        h \in Histories }

\* codes of assumed-completed lists: catalog codes and one the catalog lacks
CompletedCodes == { "DC1", "FC1", "Ghost" }

TargetSemesters == { NoDict, Some(7) }

InitSimulate ==
    /\ pc = "simulate_call"
    /\ ValidateIdle
    /\ ProjectIdle
    /\ student \in SimulatedStudents
    /\ selected_courses = {}
    /\ deselected_courses = {}
    /\ available = << >>
    /\ EnforceIdle
    /\ AdvisorIdle
    /\ heap = from_dict(<< >>, student)[1]
    /\ student_ref = from_dict(<< >>, student)[2]
    /\ simulated_ref = 0
    /\ completed_courses \in SeqsUpTo(CompletedCodes, MaxCompleted)
    /\ target_semester \in TargetSemesters
    /\ edits = 0

\* simulated_student = self._simulate_cascading_completion(student,
\* assumed_completed, all_courses, target_semester)   (lines 116-118)
Simulate ==
    /\ pc = "simulate_call"
    /\ LET out == simulate_cascading_completion(heap, student_ref, completed_courses,
                                                AllCourses, target_semester)
       IN  /\ pc' = IF out.kind = "return" THEN "simulate_done" ELSE "simulate_raised"
           /\ heap' = out.heap
           /\ simulated_ref' = out.ref
    /\ UNCHANGED << projectVars, validateVars,
                    poolVars, enforceVars, advisorVars, student_ref,
                    completed_courses, target_semester, edits >>

\* code that holds the returned profile changes an object it reaches through it
EditSimulated ==
    /\ pc = "simulate_done"
    /\ edits < MaxEdits
    /\ \E a \in ReachableFrom(heap, { simulated_ref }) :
          heap' = [heap EXCEPT ![a] = Edited(@)]
    /\ edits' = edits + 1
    /\ UNCHANGED << projectVars, validateVars,
                    pc, poolVars, enforceVars, advisorVars, student_ref,
                    simulated_ref, completed_courses, target_semester >>

NextSimulate == Simulate \/ EditSimulated

SpecSimulate == InitSimulate /\ [][NextSimulate]_vars

(***************************************************************************)
(* Claims about the cascading simulator (specification SpecSimulate).      *)
(***************************************************************************)
\* C9: the simulator never mutates the student passed to it: after the call,
\* and after any later edit of the simulated profile, the original's fields,
\* its semester_results and every nested CourseResult are as they were, and
\* the two profiles share no object.
C9_OriginalUntouched ==
    pc \in {"simulate_done", "simulate_raised"} =>
        /\ ProfileValue(heap, student_ref) = student
        /\ pc = "simulate_done" =>
              ReachableFrom(heap, { student_ref })
                \cap ReachableFrom(heap, { simulated_ref }) = {}

\* a profile with a history was simulated with a completed catalog course, and
\* the simulated profile was edited afterwards
C9_Witness ==
    /\ pc = "simulate_done"
    /\ edits > 0
    /\ student.semester_results # << >>
    /\ \E i \in 1..Len(completed_courses) : completed_courses[i] \in Codes
    /\ target_semester # NoDict
    /\ ProfileValue(heap, simulated_ref) # student

NoRepeats(codes) ==
    \A i, j \in 1..Len(codes) : codes[i] = codes[j] => i = j

RECURSIVE CatalogCredits(_)
\* the credits of the catalog courses a set of codes names
CatalogCredits(codes) ==
    IF codes = {} THEN 0
    ELSE LET c == CHOOSE x \in codes : TRUE
         IN  (IF c \in Codes THEN CatalogCourse(c).credits ELSE 0)
             + CatalogCredits(codes \ { c })

\* C10: for an assumed-completed list without repeated codes, the simulated
\* total_credits_earned is the original's plus the credits of the listed
\* codes the catalog has; codes it lacks add nothing and raise no error.
C10_CreditsOfCatalogCodes ==
    /\ pc # "simulate_raised"
    /\ (pc = "simulate_done" /\ edits = 0 /\ NoRepeats(completed_courses)) =>
          heap[simulated_ref].total_credits_earned =
              student.total_credits_earned
                + CatalogCredits(Range(completed_courses))

\* a list of one catalog course and one code the catalog lacks was simulated
C10_Witness ==
    /\ pc = "simulate_done"
    /\ edits = 0
    /\ NoRepeats(completed_courses)
    /\ "Ghost" \in Range(completed_courses)
    /\ Range(completed_courses) \cap Codes # {}
    /\ heap[simulated_ref].total_credits_earned > student.total_credits_earned

\* C11: a code listed more than once in the assumed-completed list adds its
\* credits to the simulated total_credits_earned only once.
C11_RepeatsCountOnce ==
    (pc = "simulate_done" /\ edits = 0) =>
        heap[simulated_ref].total_credits_earned =
            student.total_credits_earned + CatalogCredits(Range(completed_courses))

(***************************************************************************)
(* The fallback generator on its own (specification SpecFallback).         *)
(***************************************************************************)
\* << min_credits, max_credits >> of the sidebar, which does not compare the
\* two inputs (app.py:173-188)
FallbackLimits == CreditLimits \cup { << 7, 4 >>, << 2, 3 >> }

InitFallback ==
    /\ pc = "fallback_call"
    /\ ValidateIdle
    /\ ProjectIdle
    /\ student \in GenerateStudents
    /\ selected_courses = {}
    /\ deselected_courses = {}
    /\ available = << >>
    /\ available_courses \in SubSequences(AllCourses)
    /\ \E lim \in FallbackLimits : min_credits = lim[1] /\ max_credits = lim[2]
    /\ current_semester = student.current_semester
    /\ proposal = None
    /\ rec = None
    /\ result = NoDict
    /\ AdvisorIdle
    /\ SimulateIdle

\* self._create_fallback_recommendations(available_courses, min_credits,
\* max_credits, is_project_semester)   (lines 74-76, 79-81, 87-89)
CreateFallback ==
    /\ pc = "fallback_call"
    /\ pc' = "fallback_done"
    /\ recommendations' =
          Some(create_fallback_recommendations(available_courses, min_credits,
                                               max_credits, IsProjectSemester(student)))
    /\ UNCHANGED << projectVars, validateVars,
                    poolVars, enforceVars, simulateVars, response, advisor_calls >>

NextFallback == CreateFallback

SpecFallback == InitFallback /\ [][NextFallback]_vars

\* the total the deterministic construction ends with: the projects of a
\* project semester that fit, largest first, then the mandatory courses that
\* fit, easiest first, up to the first that reaches min_credits
RECURSIVE GreedyTotal(_, _, _, _)
GreedyTotal(courses, total, floor, maxc) ==
    IF courses = << >> THEN total
    ELSE LET t == IF total + Head(courses).credits <= maxc
                  THEN total + Head(courses).credits ELSE total
         IN  IF t >= floor THEN t ELSE GreedyTotal(Tail(courses), t, floor, maxc)

ConstructionTotal ==
    LET projects == IF IsProjectSemester(student)
                    THEN ByCreditsDescending(OfTypes(available_courses, {"PR"}))
                    ELSE << >>
        \* the project loop has no break: a floor above every total
        afterProjects == GreedyTotal(projects, 0, max_credits + 1, max_credits)
    IN  GreedyTotal(ByDifficulty(OfTypes(available_courses, MandatoryTypes)),
                    afterProjects, min_credits, max_credits)

\* C12: the fallback returns an empty list or exactly one recommendation whose
\* total_credits is the sum of its courses' credits and lies within
\* [min_credits, max_credits]; the list is empty exactly when the
\* construction ends below min_credits.
C12_FallbackOneOrNone ==
    pc = "fallback_done" =>
        LET recs == recommendations[1].recommendations
        IN  /\ Len(recs) <= 1
            /\ Len(recs) = 1 =>
                  /\ recs[1].total_credits =
                        AuthoritativeSum(recs[1].courses, CourseMap(available_courses))
                  /\ min_credits <= recs[1].total_credits
                  /\ recs[1].total_credits <= max_credits
            /\ (recs = << >>) <=> (ConstructionTotal < min_credits)

\* a fallback of a project semester that holds a project and a mandatory course
C12_Witness ==
    /\ pc = "fallback_done"
    /\ Len(recommendations[1].recommendations) = 1
    /\ recommendations[1].recommendations[1].breakdown.project_courses # << >>
    /\ recommendations[1].recommendations[1].breakdown.mandatory # << >>

(***************************************************************************)
(* Further claims about the enforcer (specification SpecEnforce).          *)
(***************************************************************************)
\* C13: the courses list of a recommendation that survives the enforcer holds
\* no course code twice, whatever the proposal listed.
C13_NoDuplicateCodes ==
    Survived => NoRepeats(result[1].courses)

\* the proposal's codes after the gating and catalog strip (lines 474-478)
StrippedCodes ==
    KeepCodes(DictGet(proposal, "courses", << >>), CourseMap(available_courses),
              current_semester)

\* the course objects of the stripped codes (line 481) and their total (line 482)
StrippedCourses ==
    [i \in 1..Len(StrippedCodes) |-> CourseMap(available_courses)[StrippedCodes[i]]]

StrippedTotal == SumCredits(StrippedCourses)

\* how often x is in the list s
Occurrences(s, x) == Cardinality({ i \in 1..Len(s) : s[i] = x })

ProtectedTypes == {"DC", "FC", "DLES", "PR"}

\* C16: the trim never removes a course of type DC, FC, DLES or PR: each such
\* course of the stripped proposal is in the courses list of a surviving
\* recommendation, as often as the stripped proposal lists it.
C16_TrimKeepsProtected ==
    Survived =>
        \A code \in Range(StrippedCodes) :
            CourseMap(available_courses)[code].type \in ProtectedTypes =>
                Occurrences(result[1].courses, code)
                    >= Occurrences(StrippedCodes, code)

\* a proposal over max_credits with a protected course was trimmed and survived
C16_Witness ==
    /\ Survived
    /\ StrippedTotal > max_credits
    /\ \E code \in Range(StrippedCodes) :
          CourseMap(available_courses)[code].type \in ProtectedTypes
    /\ Len(result[1].courses) < Len(StrippedCodes)

\* the fewest leading courses of cands whose removal brings total down to
\* max_credits, or all of them when no number does
DropCount(cands, total, maxc) ==
    IF \E k \in 0..Len(cands) : total - SumCredits(SubSeq(cands, 1, k)) <= maxc
    THEN CHOOSE k \in 0..Len(cands) :
            /\ total - SumCredits(SubSeq(cands, 1, k)) <= maxc
            /\ \A j \in 0..(k - 1) : total - SumCredits(SubSeq(cands, 1, j)) > maxc
    ELSE Len(cands)

RECURSIVE WithoutAll(_, _)
\* the list after one removal per course of removed
WithoutAll(selected, removed) ==
    IF removed = << >> THEN selected
    ELSE WithoutAll(RemoveFirst(selected, Head(removed)), Tail(removed))

\* what the claim's trim leaves of the stripped proposal: the open electives
\* go first, largest first and no more than needed, and the discipline
\* electives after them in the same way; << courses, total >>
ExpectedTrim ==
    LET oe == OfTypes(ByCreditsDescending(StrippedCourses), {"OE"})
        k1 == DropCount(oe, StrippedTotal, max_credits)
        s1 == WithoutAll(StrippedCourses, SubSeq(oe, 1, k1))
        t1 == StrippedTotal - SumCredits(SubSeq(oe, 1, k1))
        de == OfTypes(ByCreditsDescending(s1), {"DE"})
        k2 == DropCount(de, t1, max_credits)
    IN  << WithoutAll(s1, SubSeq(de, 1, k2)), t1 - SumCredits(SubSeq(de, 1, k2)) >>

\* C17: over max_credits, the trim removes open electives in descending credit
\* order until the total is within max_credits, a discipline elective only
\* once no open elective is left and the total is still over, and nothing
\* once the total is within max_credits; with the electives exhausted and the
\* total still over, the recommendation is discarded.
C17_TrimOrder ==
    (pc = "enforce_done" /\ StrippedTotal > max_credits) =>
        LET trimmed == Trim(StrippedCourses, StrippedTotal, max_credits)
        IN  /\ trimmed = ExpectedTrim
            /\ trimmed[2] > max_credits =>
                  /\ OfTypes(trimmed[1], {"OE", "DE"}) = << >>
                  /\ result = NoDict
            /\ (min_credits <= trimmed[2] /\ trimmed[2] <= max_credits) =>
                  /\ result # NoDict
                  /\ result[1].courses = CodesOf(trimmed[1])
                  /\ result[1].total_credits = trimmed[2]

\* an open and a discipline elective were both removed, in that order, before
\* the total came within max_credits
C17_Witness ==
    /\ pc = "enforce_done"
    /\ StrippedTotal > max_credits
    /\ OfTypes(StrippedCourses, {"OE"}) # << >>
    /\ OfTypes(StrippedCourses, {"DE"}) # << >>
    /\ ExpectedTrim[1] = << >>
    /\ result # NoDict

\* electives ran out with the total still over max_credits
C17_WitnessDiscard ==
    /\ pc = "enforce_done"
    /\ StrippedTotal > max_credits
    /\ OfTypes(StrippedCourses, {"OE", "DE"}) # << >>
    /\ ExpectedTrim[2] > max_credits
    /\ result = NoDict

\* the state the pad starts from: << selected, total >> after the trim
BeforePad == Trim(StrippedCourses, StrippedTotal, max_credits)

\* the codes the pad appended to rec['courses'], given the state it started from
PaddedAfter(before) ==
    SubSeq(rec["courses"], Len(before[1]) + 1, Len(rec["courses"]))

PaddedCodes == PaddedAfter(BeforePad)

\* place of a code in available_courses
PoolIndex(code) ==
    CHOOSE i \in 1..Len(available_courses) : available_courses[i].course_code = code

PoolCourse(code) == available_courses[PoolIndex(code)]

\* the pad considers a before b: mandatory types first, then ascending
\* difficulty, then the order of available_courses
ConsideredBefore(a, b) ==
    LET ga == IF PoolCourse(a).type \in MandatoryTypes THEN 0 ELSE 1
        gb == IF PoolCourse(b).type \in MandatoryTypes THEN 0 ELSE 1
    IN  \/ ga < gb
        \/ ga = gb /\ PoolCourse(a).difficulty < PoolCourse(b).difficulty
        \/ /\ ga = gb
           /\ PoolCourse(a).difficulty = PoolCourse(b).difficulty
           /\ PoolIndex(a) < PoolIndex(b)

RECURSIVE CreditsOfCodes(_)
\* the credits of a set of codes of available_courses
CreditsOfCodes(codes) ==
    IF codes = {} THEN 0
    ELSE LET c == CHOOSE x \in codes : TRUE
         IN  PoolCourse(c).credits + CreditsOfCodes(codes \ { c })

\* the total when the pad considers code: the total it started from plus the
\* credits of the appended codes considered before it
TotalWhenConsidered(code, before, padded) ==
    before[2] + CreditsOfCodes({ p \in Range(padded) : ConsideredBefore(p, code) })

\* codes of available_courses that were not in the list when the pad started
CandidatesAfter(before) ==
    { available_courses[i].course_code : i \in 1..Len(available_courses) }
      \ Range(CodesOf(before[1]))

PadCandidates == CandidatesAfter(BeforePad)

\* C18: below min_credits, the pad considers the courses of available_courses
\* not yet included, mandatory types first and by ascending difficulty within
\* each group, appends a course only if it fits under max_credits and stops
\* once min_credits is reached; so it never raises the total above
\* max_credits, and it appends a non-mandatory course only when no remaining
\* mandatory course fits.
C18_PadOrder ==
    pc = "enforce_done" =>
      \A before \in { BeforePad } : before[2] < min_credits =>
        \A padded \in { PaddedAfter(before) } :
        /\ SubSeq(rec["courses"], 1, Len(before[1])) = CodesOf(before[1])
        /\ NoRepeats(padded)
        /\ Range(padded) \subseteq CandidatesAfter(before)
        /\ \A i, j \in 1..Len(padded) :
              i < j => ConsideredBefore(padded[i], padded[j])
        /\ rec["total_credits"] = before[2] + CreditsOfCodes(Range(padded))
        /\ padded # << >> => rec["total_credits"] <= max_credits
        /\ \A code \in CandidatesAfter(before) :
              code \in Range(padded) <=>
                  /\ TotalWhenConsidered(code, before, padded) < min_credits
                  /\ TotalWhenConsidered(code, before, padded)
                        + PoolCourse(code).credits <= max_credits
        /\ \A x \in Range(padded), m \in CandidatesAfter(before) \ Range(padded) :
              (/\ PoolCourse(x).type \notin MandatoryTypes
               /\ PoolCourse(m).type \in MandatoryTypes) =>
                  TotalWhenConsidered(x, before, padded)
                      + PoolCourse(m).credits > max_credits

\* the pad skipped a mandatory course that did not fit and appended an
\* elective after it
C18_Witness ==
    /\ pc = "enforce_done"
    /\ BeforePad[2] < min_credits
    /\ result # NoDict
    /\ \E x \in Range(PaddedCodes), m \in PadCandidates \ Range(PaddedCodes) :
          /\ PoolCourse(x).type \notin MandatoryTypes
          /\ PoolCourse(m).type \in MandatoryTypes

\* C19: after the enforcer returns a recommendation, every category list of its
\* breakdown (mandatory, electives, project_courses, failed_courses_included)
\* holds only codes of the recommendation's final courses list.
C19_BreakdownInSync ==
    (Survived /\ "breakdown" \in DOMAIN result[1]) =>
        \A key \in DOMAIN result[1]["breakdown"] :
            Range(result[1]["breakdown"][key]) \subseteq Range(result[1]["courses"])

(***************************************************************************)
(* Further claims about the advisor call (specification SpecGenerate).     *)
(***************************************************************************)
\* the response is a text that json.loads turns into a dict with the key
ParsedWithKey ==
    /\ response.raised = None
    /\ response.content # NoDict
    /\ JsonLoads(JsonText(response.content[1])).has_key

\* what the enforcer returns for strategy i of the response, taken alone
EnforcedAlone(i) ==
    enforce_credit_limits(response.recs[i], available_courses, min_credits,
                          max_credits, student.current_semester).ret

\* C20: for a parsed response with a 'recommendations' list the request
\* returns exactly the strategies the enforcer does not discard, in their
\* original order, each as enforcing it alone gives it; if every strategy is
\* discarded it returns the fallback generator's output.
C20_SurvivorsInOrder ==
    (pc = "generate_returned" /\ ParsedWithKey) =>
        \A kept \in { { i \in 1..Len(response.recs) : EnforcedAlone(i) # NoDict } } :
            IF kept = {}
            THEN recommendations = Some(ExpectedFallback)
            ELSE /\ DOMAIN recommendations[1] = {"recommendations"}
                 /\ Len(recommendations[1].recommendations) = Cardinality(kept)
                 /\ \A i \in kept :
                       recommendations[1].recommendations[
                           Cardinality({ j \in kept : j <= i })] = EnforcedAlone(i)[1]

\* the first of two strategies was discarded and the second returned
C20_Witness ==
    /\ pc = "generate_returned"
    /\ ParsedWithKey
    /\ Len(response.recs) = 2
    /\ EnforcedAlone(1) = NoDict
    /\ EnforcedAlone(2) # NoDict
    /\ Len(recommendations[1].recommendations) = 1

\* every strategy of the response was discarded and the fallback returned
C20_WitnessAllDiscarded ==
    /\ pc = "generate_returned"
    /\ ParsedWithKey
    /\ Len(response.recs) = 2
    /\ EnforcedAlone(1) = NoDict
    /\ EnforcedAlone(2) = NoDict
    /\ recommendations = Some(ExpectedFallback)

(***************************************************************************)
(* Validator: src/src/services/validator.py                                *)
(***************************************************************************)
\* longest course list handed to the validator
MaxSelection == 2

\* estimated_mandatory_total (validator.py:138)
EstimatedMandatoryTotal == 120

\* an empty dict or list of messages
EmptyDict == [x \in {} |-> << >>]

\* a Course as the validator reads it: prerequisites is a list of codes
ListedCourse(code, prereqs) ==
    [course_code |-> code, credits |-> CatalogCourse(code).credits,
     type |-> CatalogCourse(code).type, prerequisites |-> prereqs]

RECURSIVE MissingPrerequisites(_, _, _)
\* the inner loop of check_prerequisites (lines 70-74), one message per
\* prerequisite that is not passed
MissingPrerequisites(prereqs, code, passed) ==
    IF prereqs = << >> THEN << >>
    ELSE (IF Head(prereqs) \notin passed
          THEN << [error |-> "requires", course |-> code, needs |-> Head(prereqs)] >>
          ELSE << >>)
         \o MissingPrerequisites(Tail(prereqs), code, passed)

RECURSIVE PrerequisiteErrors(_, _)
PrerequisiteErrors(courses, passed) ==
    IF courses = << >> THEN << >>
    ELSE MissingPrerequisites(Head(courses).prerequisites, Head(courses).course_code,
                              passed)
         \o PrerequisiteErrors(Tail(courses), passed)

\* Validator.check_prerequisites (lines 63-76): << valid, errors >>
check_prerequisites(courses, s) ==
    LET errors == PrerequisiteErrors(courses, Range(get_passed_courses(s)))
    IN  << errors = << >>, errors >>

RECURSIVE ClaimSlotsLastWins(_, _, _)
\* mutant: a clashing course takes the token over
ClaimSlotsLastWins(slot_parts, code, st) ==
    IF slot_parts = << >> THEN st
    ELSE ClaimSlotsLastWins(Tail(slot_parts), code,
            IF Head(slot_parts) \in DOMAIN st.slot_usage
            THEN [st EXCEPT !.clashes =
                     Append(@, [error |-> "slot clash", slot |-> Head(slot_parts),
                                course |-> code,
                                other |-> st.slot_usage[Head(slot_parts)]]),
                            !.slot_usage = DictPut(@, Head(slot_parts), code)]
            ELSE [st EXCEPT !.slot_usage = DictPut(@, Head(slot_parts), code)])

RECURSIVE ClaimSlots(_, _, _)
\* the inner loop of check_slot_clashes (lines 36-43) over the parts of one
\* label; the state carried is [slot_usage, clashes]
ClaimSlots(slot_parts, code, st) ==
    IF slot_parts = << >> THEN st
    ELSE ClaimSlots(Tail(slot_parts), code,
            IF Head(slot_parts) \in DOMAIN st.slot_usage
            THEN [st EXCEPT !.clashes =
                     Append(@, [error |-> "slot clash", slot |-> Head(slot_parts),
                                course |-> code,
                                other |-> st.slot_usage[Head(slot_parts)]])]
            ELSE [st EXCEPT !.slot_usage = DictPut(@, Head(slot_parts), code)])

RECURSIVE SlotLoop(_, _, _)
\* the outer loop (lines 27-43); a label is held as chosen_slot.split('+')
SlotLoop(courses, assignments, st) ==
    IF courses = << >> THEN st
    ELSE IF Head(courses).course_code \notin DOMAIN assignments
         THEN SlotLoop(Tail(courses), assignments, st)
         ELSE SlotLoop(Tail(courses), assignments,
                       ClaimSlots(assignments[Head(courses).course_code],
                                  Head(courses).course_code, st))

\* Validator.check_slot_clashes (lines 17-45): << valid, clashes >>
check_slot_clashes(courses, assignments) ==
    LET clashes == SlotLoop(courses, assignments,
                            [slot_usage |-> EmptyDict, clashes |-> << >>]).clashes
    IN  << clashes = << >>, clashes >>

\* Validator.check_credit_bounds (lines 47-61): << valid, errors >>
check_credit_bounds(courses, minc, maxc) ==
    LET total_credits == SumCredits(courses)
        errors == (IF total_credits < minc
                   THEN << [error |-> "below minimum", total |-> total_credits] >>
                   ELSE << >>)
                  \o (IF total_credits > maxc
                      THEN << [error |-> "exceed maximum", total |-> total_credits] >>
                      ELSE << >>)
    IN  << errors = << >>, errors >>

RECURSIVE SelectedMandatoryCredits(_, _)
\* lines 132-135
SelectedMandatoryCredits(courses, passed) ==
    IF courses = << >> THEN 0
    ELSE (IF /\ Head(courses).type \in MandatoryTypes
             /\ Head(courses).course_code \notin passed
          THEN Head(courses).credits ELSE 0)
         + SelectedMandatoryCredits(Tail(courses), passed)

\* mutant: a need equal to the threshold already exceeds it
NeedReaches(remaining, sems, maxc, num, den) ==
    remaining * den >= maxc * num * sems

\* remaining / sems > maxc * num / den for sems > 0, on integers; the code
\* compares floats (lines 145-153), which agree with it for whole credits
NeedExceeds(remaining, sems, maxc, num, den) ==
    remaining * den > maxc * num * sems

\* Validator.analyze_graduation_feasibility (lines 112-176)
analyze_graduation_feasibility(s, current_selection, maxc) ==
    LET passed == Range(get_passed_courses(s))
        completed_mandatory_credits == PassedCredits(AllResults(s.semester_results))
        selected_mandatory_credits ==
            SelectedMandatoryCredits(current_selection, passed)
        left == EstimatedMandatoryTotal - completed_mandatory_credits
                  - selected_mandatory_credits
        remaining_mandatory == IF left > 0 THEN left ELSE 0
        remaining_sems == LastSemester - s.current_semester
        outcome ==
            IF remaining_sems > 0
            THEN IF NeedExceeds(remaining_mandatory, remaining_sems, maxc, 1, 1)
                 THEN << FALSE, << "GRADUATION AT RISK" >> >>
                 ELSE IF NeedExceeds(remaining_mandatory, remaining_sems, maxc, 8, 10)
                      THEN << TRUE, << "TIGHT SCHEDULE" >> >>
                      ELSE << TRUE, << >> >>
            ELSE IF remaining_mandatory = 0
                 THEN << TRUE, << >> >>
                 ELSE << FALSE, << "Cannot graduate" >> >>
    IN  [feasible |-> outcome[1], warnings |-> outcome[2],
         details |-> [remaining_mandatory_credits |-> remaining_mandatory,
                      remaining_semesters |-> remaining_sems,
                      completed_mandatory_credits |-> completed_mandatory_credits,
                      selected_mandatory_credits |-> selected_mandatory_credits]]

\* Validator.validate_selection (lines 78-110)
validate_selection(courses, assignments, s, minc, maxc) ==
    LET errors == check_prerequisites(courses, s)[2]
                    \o check_slot_clashes(courses, assignments)[2]
                    \o check_credit_bounds(courses, minc, maxc)[2]
        feasibility_analysis == analyze_graduation_feasibility(s, courses, maxc)
    IN  [valid |-> errors = << >>,
         errors |-> errors,
         warnings |-> IF ~feasibility_analysis.feasible
                      THEN feasibility_analysis.warnings ELSE << >>,
         feasibility |-> feasibility_analysis]

\* ---- inputs of the validator ----
\* the catalog's prerequisite lists of the courses a selection is made of
ValidatorCatalog ==
    { ListedCourse("FC1", << >>), ListedCourse("OE1", << >>),
      ListedCourse("DC1", << "FC1" >>), ListedCourse("DE1", << "DC1", "FC1" >>) }

\* both callers pick each catalog course at most once
Selections ==
    { courses \in SeqsUpTo(ValidatorCatalog, MaxSelection) :
        NoRepeats(CodesOf(courses)) }

\* slot labels after split('+'): "A1", "A2", "A1+A2" and "A1+A1"
SlotLabels == { << "A1" >>, << "A2" >>, << "A1", "A2" >>, << "A1", "A1" >> }

\* the dicts that give a label to some of the selected codes
SlotAssignments(courses) ==
    UNION { [assigned -> SlotLabels] : assigned \in SUBSET Range(CodesOf(courses)) }

\* the mandatory credits of the semesters before the ones the histories spell
\* out, as one passed result
Earlier(credits) == CourseResult("Earlier", "A", credits, "passed")

ValidatorHistories ==
    LET fc1(st) == CourseResult("FC1", IF st = "passed" THEN "B" ELSE "F",
                                CatalogCourse("FC1").credits, st)
        oe1 == CourseResult("OE1", "B", CatalogCourse("OE1").credits, "passed")
    IN  { << >>,
          << SemesterResult(1, << oe1 >>) >>,
          << SemesterResult(1, << Earlier(117) >>),
             SemesterResult(2, << oe1 >>) >>,
          << SemesterResult(1, << fc1("passed") >>) >>,
          << SemesterResult(1, << fc1("failed") >>) >>,
          << SemesterResult(1, << Earlier(99) >>) >>,
          << SemesterResult(1, << Earlier(99) >>),
             SemesterResult(2, << fc1("passed") >>) >>,
          << SemesterResult(1, << Earlier(117) >>) >>,
          << SemesterResult(1, << Earlier(117) >>),
             SemesterResult(2, << fc1("passed") >>) >> }

ValidatorSemesters == {1, 7, 8}

ValidatorStudents ==
    { StudentProfile(sem, YearOf(sem), PassedCredits(AllResults(h)), h) :
        sem \in ValidatorSemesters, h \in ValidatorHistories }

\* Validator(min_credits, max_credits): the defaults 16 and 27 and the
\* limits of a constraints file
ValidatorLimits ==
    { << 16, 27 >>, << 4, 16 >>, << 4, 20 >>, << 4, 21 >>, << 5, 6 >> }

InitValidate ==
    /\ pc = "validate_call"
    /\ ProjectIdle
    /\ student \in ValidatorStudents
    /\ selected_courses = {}
    /\ deselected_courses = {}
    /\ available = << >>
    /\ available_courses = << >>
    /\ \E lim \in ValidatorLimits : min_credits = lim[1] /\ max_credits = lim[2]
    /\ current_semester = student.current_semester
    /\ proposal = None
    /\ rec = None
    /\ result = NoDict
    /\ AdvisorIdle
    /\ SimulateIdle
    /\ selection \in Selections
    /\ slot_assignments \in SlotAssignments(selection)
    /\ validation = NoDict

\* validator.validate_selection(courses, slot_assignments, student)
\* (ui/recommendations.py:303 and :404)
ValidateSelection ==
    /\ pc = "validate_call"
    /\ pc' = "validate_done"
    /\ validation' = validate_selection(selection, slot_assignments, student,
                                        min_credits, max_credits)
    /\ UNCHANGED << projectVars, selection, slot_assignments,
                    poolVars, enforceVars, advisorVars, simulateVars >>

NextValidate == ValidateSelection

SpecValidate == InitValidate /\ [][NextValidate]_vars

\* ---- C14 ----
\* every prerequisite of every selected course is in the passed set
PrerequisitesPassed ==
    \A i \in 1..Len(selection) :
        Range(selection[i].prerequisites) \subseteq Range(get_passed_courses(student))

\* the atomic tokens of the label assigned to a code
TokensOf(code) == Range(slot_assignments[code])

\* no token is claimed by more than one course
NoSharedToken ==
    \A a, b \in Range(CodesOf(selection)) \cap DOMAIN slot_assignments :
        a # b => TokensOf(a) \cap TokensOf(b) = {}

CreditsWithinBounds ==
    /\ min_credits <= SumCredits(selection)
    /\ SumCredits(selection) <= max_credits

ValidatorErrorKinds == {"requires", "slot clash", "below minimum", "exceed maximum"}

\* C14: valid is true exactly when the prerequisites are passed, no slot token
\* is claimed by more than one course and the credit sum is within
\* [min_credits, max_credits]; the errors are those of the three checks only,
\* whatever the feasibility analysis found
C14_ValidIffThreeChecks ==
    pc = "validate_done" =>
        /\ validation.valid <=>
              (PrerequisitesPassed /\ NoSharedToken /\ CreditsWithinBounds)
        /\ validation.valid <=> (validation.errors = << >>)
        /\ \A i \in 1..Len(validation.errors) :
              validation.errors[i].error \in ValidatorErrorKinds

\* ---- C15 ----
\* C15: with r = 8 - current_semester and need = remaining_mandatory / r,
\* r > 0 gives "at risk" and infeasible when need > max_credits, "tight" and
\* feasible with one warning when 0.8 * max_credits < need <= max_credits, and
\* feasible without a warning otherwise; r = 0 is feasible exactly when no
\* mandatory credit remains
C15_FeasibilityClasses ==
    pc = "validate_done" =>
        \A f \in { validation.feasibility } :
            LET r == LastSemester - student.current_semester
                remaining == f.details.remaining_mandatory_credits
            IN  /\ r > 0 /\ remaining > max_credits * r =>
                      /\ ~f.feasible
                      /\ f.warnings = << "GRADUATION AT RISK" >>
                /\ r > 0 /\ 10 * remaining > 8 * max_credits * r
                         /\ remaining <= max_credits * r =>
                      /\ f.feasible
                      /\ f.warnings = << "TIGHT SCHEDULE" >>
                /\ r > 0 /\ 10 * remaining <= 8 * max_credits * r =>
                      /\ f.feasible
                      /\ f.warnings = << >>
                /\ r = 0 => (f.feasible <=> remaining = 0)

\* a tight schedule whose need is exactly max_credits
C15_Witness ==
    /\ pc = "validate_done"
    /\ student.current_semester < LastSemester
    /\ validation.feasibility.details.remaining_mandatory_credits
          = max_credits * (LastSemester - student.current_semester)
    /\ validation.feasibility.warnings = << "TIGHT SCHEDULE" >>

C15_WitnessAtRisk ==
    /\ pc = "validate_done"
    /\ validation.feasibility.warnings = << "GRADUATION AT RISK" >>

C15_WitnessNoWarning ==
    /\ pc = "validate_done"
    /\ student.current_semester < LastSemester
    /\ validation.feasibility.details.remaining_mandatory_credits * 10
          = 8 * max_credits * (LastSemester - student.current_semester)
    /\ validation.feasibility.warnings = << >>

C15_WitnessLastSemester ==
    /\ pc = "validate_done"
    /\ student.current_semester = LastSemester
    /\ validation.feasibility.feasible
    /\ validation.feasibility.details.selected_mandatory_credits > 0

\* ---- C21 ----
\* the assumed-completed codes the catalog has, in list order
FoundInCatalog == SelectSeq(completed_courses, LAMBDA code : code \in Codes)

\* the CourseResults the synthetic semester is to hold
AssumedResults ==
    [i \in 1..Len(FoundInCatalog) |->
        CourseResult(FoundInCatalog[i], "A",
                     CatalogCourse(FoundInCatalog[i]).credits, "passed")]

\* y = ceil(t / 2)
IsCeilOfHalf(y, t) == 2 * y >= t /\ 2 * (y - 1) < t

\* sim's history is the original's followed by one synthetic semester tagged
\* with the original's current_semester
OneSemesterAppended(sim) ==
    /\ Len(sim.semester_results) = Len(student.semester_results) + 1
    /\ SubSeq(sim.semester_results, 1, Len(student.semester_results))
          = student.semester_results
    /\ sim.semester_results[Len(sim.semester_results)]
          = SemesterResult(student.current_semester, AssumedResults)

SimulatorOnItsOwn ==
    (pc = "simulate_done" /\ edits = 0) =>
        \A sim \in { ProfileValue(heap, simulated_ref) } :
            /\ FoundInCatalog # << >> => OneSemesterAppended(sim)
            /\ FoundInCatalog = << >> =>
                  sim.semester_results = student.semester_results
            /\ target_semester # NoDict =>
                  /\ sim.current_semester = target_semester[1]
                  /\ IsCeilOfHalf(sim.current_year, target_semester[1])
            /\ target_semester = NoDict =>
                  /\ sim.current_semester = student.current_semester
                  /\ sim.current_year = student.current_year

RECURSIVE TokenClaims(_, _)
\* the claims of tokens in the order they are made: the courses in list
\* order, those without a label left out, and each label's tokens in order
TokenClaims(courses, assignments) ==
    IF courses = << >> THEN << >>
    ELSE (IF Head(courses).course_code \in DOMAIN assignments
          THEN [k \in 1..Len(assignments[Head(courses).course_code]) |->
                   [course |-> Head(courses).course_code,
                    slot |-> assignments[Head(courses).course_code][k]]]
          ELSE << >>)
         \o TokenClaims(Tail(courses), assignments)

\* the first claim of the token of claim k
FirstClaim(claims, k) ==
    CHOOSE j \in 1..k : /\ claims[j].slot = claims[k].slot
                        /\ \A i \in 1..(j - 1) : claims[i].slot # claims[k].slot

RECURSIVE ClashesFrom(_, _)
\* one error for each claim from k on whose token was claimed before
ClashesFrom(claims, k) ==
    IF k > Len(claims) THEN << >>
    ELSE (IF FirstClaim(claims, k) < k
          THEN << [error |-> "slot clash", slot |-> claims[k].slot,
                   course |-> claims[k].course,
                   other |-> claims[FirstClaim(claims, k)].course] >>
          ELSE << >>)
         \o ClashesFrom(claims, k + 1)

ReportedClashes ==
    SelectSeq(validation.errors, LAMBDA e : e.error = "slot clash")

\* C25: check_slot_clashes goes through the courses in list order, skips the
\* unassigned ones, lets the first course that claims a token keep it, reports
\* one clash for each later claim of a claimed token, naming the later course
\* and the first claimant, and is valid exactly when no token is claimed twice
C25_FirstClaimantWins ==
    pc = "validate_done" =>
        \A claims \in { TokenClaims(selection, slot_assignments) } :
        \A checked \in { check_slot_clashes(selection, slot_assignments) } :
            /\ checked[2] = ClashesFrom(claims, 1)
            /\ checked[1] <=>
                  (\A i, j \in 1..Len(claims) :
                      claims[i].slot = claims[j].slot => i = j)
            /\ ReportedClashes = checked[2]

\* a token is claimed three times: by the first course, and twice by the label
\* of the second course; an unassigned course is skipped in another state
C25_Witness ==
    /\ pc = "validate_done"
    /\ Len(selection) = 2
    /\ DOMAIN slot_assignments = Range(CodesOf(selection))
    /\ slot_assignments[selection[1].course_code] = << "A1" >>
    /\ slot_assignments[selection[2].course_code] = << "A1", "A1" >>
    /\ Len(ReportedClashes) = 2
    /\ ReportedClashes[2].other = selection[1].course_code

C25_WitnessSkipped ==
    /\ pc = "validate_done"
    /\ Len(selection) = 2
    /\ DOMAIN slot_assignments = { selection[2].course_code }
    /\ Len(ReportedClashes) = 1

\* ---- C26 ----
RECURSIVE MandatoryUntilFloor(_, _, _, _)
\* the mandatory courses in the given order, each added only while the
\* running total is below minc and only if it fits under maxc
MandatoryUntilFloor(mandatory, st, minc, maxc) ==
    IF mandatory = << >> \/ st[2] >= minc THEN st
    ELSE IF st[2] + Head(mandatory).credits <= maxc
         THEN MandatoryUntilFloor(Tail(mandatory),
                                  << Append(st[1], Head(mandatory)),
                                     st[2] + Head(mandatory).credits >>, minc, maxc)
         ELSE MandatoryUntilFloor(Tail(mandatory), st, minc, maxc)

\* the construction as C26 words it
StatedConstruction ==
    LET projects == IF IsProjectSemester(student)
                    THEN ByCreditsDescending(OfTypes(available_courses, {"PR"}))
                    ELSE << >>
    IN  MandatoryUntilFloor(ByDifficulty(OfTypes(available_courses, MandatoryTypes)),
                            AddProjects(projects, << << >>, 0 >>, max_credits),
                            min_credits, max_credits)

\* C26: the fallback adds projects only in a project semester, largest first
\* and each only if it fits, then mandatory courses by ascending difficulty,
\* each only if it fits, and none once the running total has reached
\* min_credits; it never adds a DE or OE course
C26_NoMandatoryAfterFloor ==
    (pc = "fallback_done" /\ recommendations[1].recommendations # << >>) =>
        \A r \in { recommendations[1].recommendations[1] } :
            /\ r.courses = CodesOf(StatedConstruction[1])
            /\ \A i \in 1..Len(r.courses) :
                  CatalogCourse(r.courses[i]).type \notin {"DE", "OE"}
            /\ r.breakdown.electives = << >>

\* ---- C27 ----
\* the need per remaining semester is above 0.8 * max_credits and not above
\* max_credits
TightCase ==
    LET r == LastSemester - student.current_semester
        remaining == validation.feasibility.details.remaining_mandatory_credits
    IN  /\ r > 0
        /\ 10 * remaining > 8 * max_credits * r
        /\ remaining <= max_credits * r

\* C27: in the tight case the warnings of validate_selection hold the
\* tight-schedule warning, and in every case they are the warnings of the
\* feasibility estimate
C27_WarningsSurface ==
    pc = "validate_done" =>
        /\ TightCase =>
              \E i \in 1..Len(validation.warnings) :
                  validation.warnings[i] = "TIGHT SCHEDULE"
        /\ validation.warnings = validation.feasibility.warnings

\* ---- C28 ----
\* the type of a passed result's course; a result the catalog does not list
\* stands for mandatory credits
ResultType(code) == IF code \in Codes THEN CatalogCourse(code).type ELSE "DC"

RECURSIVE PassedMandatoryCredits(_)
PassedMandatoryCredits(results) ==
    IF results = << >> THEN 0
    ELSE (IF /\ Head(results).status = "passed"
             /\ ResultType(Head(results).course_code) \in MandatoryTypes
          THEN Head(results).credits ELSE 0)
         + PassedMandatoryCredits(Tail(results))

StatedRemainingMandatory ==
    LET left == EstimatedMandatoryTotal
                  - PassedMandatoryCredits(AllResults(student.semester_results))
                  - SelectedMandatoryCredits(selection,
                                             Range(get_passed_courses(student)))
    IN  IF left > 0 THEN left ELSE 0

\* C28: the remaining mandatory credits are max(0, 120 - passed mandatory
\* credits - selected mandatory credits not yet passed), passed DE and OE
\* credits do not count, and a semester-8 selection that leaves mandatory
\* credits uncovered is infeasible
C28_OnlyMandatoryCounts ==
    pc = "validate_done" =>
        /\ validation.feasibility.details.remaining_mandatory_credits
              = StatedRemainingMandatory
        /\ (student.current_semester = LastSemester /\ StatedRemainingMandatory > 0)
              => ~validation.feasibility.feasible

\* ---- C29 (specification SpecSimulate) ----
\* the profiles of a state: the session's student, and the simulated one once
\* the simulator has returned
ProfilesOfState ==
    { student } \cup (IF pc = "simulate_done"
                      THEN { ProfileValue(heap, simulated_ref) } ELSE {})

\* codes with at least one failed result and no passed result in any semester
FailedAndNeverPassed(s) ==
    LET results == AllResults(s.semester_results)
    IN  { code \in { results[i].course_code : i \in 1..Len(results) } :
            /\ \E i \in 1..Len(results) :
                  results[i].course_code = code /\ results[i].status = "failed"
            /\ \A i \in 1..Len(results) :
                  results[i].course_code = code => results[i].status # "passed" }

C29_Witness ==
    /\ pc = "simulate_done"
    /\ edits = 0
    /\ Len(student.semester_results) = 2
    /\ student.semester_results[1].courses[1].status = "passed"
    /\ student.semester_results[2].courses[1] =
          [student.semester_results[1].courses[1] EXCEPT !.status = "failed",
                                                         !.grade = "F"]
    /\ get_failed_courses(student) = {}

FuturePoolUngated(course, passed, target) ==
    IF course.course_code \in passed THEN FALSE
    ELSE course.year_level <= (target + 1) \div 2

\* the decision of the loop at lines 125-134 for one course
FuturePoolIncludes(course, passed, target) ==
    IF course.course_code \in passed THEN FALSE
    ELSE IF course.course_code = "Proj1" /\ target # 7 THEN FALSE
    ELSE IF course.course_code = "Proj2" /\ target # 8 THEN FALSE
    ELSE course.year_level <= (target + 1) \div 2

RECURSIVE FuturePoolLoop(_, _, _)
FuturePoolLoop(courses, passed, target) ==
    IF courses = << >> THEN << >>
    ELSE (IF FuturePoolIncludes(Head(courses), passed, target)
          THEN << Head(courses) >> ELSE << >>)
         \o FuturePoolLoop(Tail(courses), passed, target)

\* 'recommendations' in proj and len(proj['recommendations']) > 0
HasBest(proj) ==
    /\ "recommendations" \in DOMAIN proj
    /\ Len(proj.recommendations) > 0

RECURSIVE ExtendAssumed(_, _)
\* lines 109-113
ExtendAssumed(assumed, previous_projections) ==
    IF previous_projections = << >> THEN assumed
    ELSE ExtendAssumed(
            IF HasBest(Head(previous_projections))
            THEN assumed \o Head(previous_projections).recommendations[1].courses
            ELSE assumed,
            Tail(previous_projections))

\* lines 116-118: the simulator's call on the session's student; the values
\* are computed once and handed on
SimulatedFor(s, all_courses, assumed_completed, target) ==
    CHOOSE r \in
        { [heap |-> sim.heap, student_ref |-> made[2], simulated_ref |-> sim.ref,
           simulated_student |-> ProfileValue(sim.heap, sim.ref)] :
            made \in { from_dict(<< >>, s) },
            sim \in { simulate_cascading_completion(
                          from_dict(<< >>, s)[1], from_dict(<< >>, s)[2],
                          assumed_completed, all_courses, Some(target)) } } : TRUE

\* lines 120-134: the pool of the target semester
FuturePool(all_courses, simulated_student, target) ==
    FuturePoolLoop(all_courses, Range(get_passed_courses(simulated_student)), target)

\* The whole method for one response of the advisor.  Returns the dict the
\* method returns as value, with the values it computed on the way.
generate_future_projections(s, all_courses, current_recommendation, minc, maxc, target, previous_projections, resp) ==
    CHOOSE r \in
        { [assumed_completed |-> assumed_completed,
           heap |-> sim.heap, student_ref |-> sim.student_ref,
           simulated_ref |-> sim.simulated_ref,
           available |-> pool,
           value |-> after_advisor_call(resp, sim.simulated_student, pool, minc,
                                        maxc).value] :
            assumed_completed \in
                { ExtendAssumed(current_recommendation.courses,
                                previous_projections) },
            sim \in
                { SimulatedFor(s, all_courses,
                               ExtendAssumed(current_recommendation.courses,
                                             previous_projections), target) },
            pool \in
                { FuturePool(all_courses,
                             SimulatedFor(s, all_courses,
                                          ExtendAssumed(current_recommendation.courses,
                                                        previous_projections),
                                          target).simulated_student,
                             target) } } : TRUE

\* ---- inputs ----
\* the strategies the advisor proposes for a semester, by their codes
ProjectionStrategies ==
    { << "DC1", "OE1" >>, << "FC1", "FC1" >>, << "DE1", "OE2" >> }

\* the ranked lists of a response: one strategy, or two
ProjectionLists ==
    { << st >> : st \in ProjectionStrategies }
    \cup { << << "FC1", "FC1" >>, << "DC1", "OE1" >> >> }

\* the advisor's responses to a projection request: an exception, a JSON
\* object without the member, and an object with a ranked list
ProjectionResponses ==
    { [raised |-> "APITimeoutError", content |-> NoDict, recs |-> << >>],
      [raised |-> None, content |-> Some(<< "{", "}" >>), recs |-> << >>] }
    \cup { [raised |-> None, content |-> Some(<< "{", "recs", "}" >>),
            recs |-> RankedRecs(l)] : l \in ProjectionLists }

\* a student of semester 5 who passed FC1, and one of semester 3 who failed
\* the third-year course DE1
ProjectionStudents ==
    LET passed == << SemesterResult(1, << CourseResult("FC1", "B", 2, "passed") >>) >>
        failed == << SemesterResult(2, << CourseResult("DE1", "F", 3, "failed") >>) >>
    IN  { StudentProfile(5, YearOf(5), PassedCredits(AllResults(passed)), passed),
          StudentProfile(3, YearOf(3), PassedCredits(AllResults(failed)), failed) }

\* max_future_sems = min(3, 8 - student.current_semester) (line 141) and
\* target_sem = student.current_semester + j + 1 (line 149)
FutureTargets(s) ==
    LET max_future_sems == IF LastSemester - s.current_semester < 3
                           THEN LastSemester - s.current_semester ELSE 3
    IN  { s.current_semester + j + 1 : j \in 0..(max_future_sems - 1) }

\* st.session_state['current_recommendations'] after the Generate
\* Recommendations button (recommendations.py:60-76)
CurrentRecommendations(s, minc, maxc) ==
    { after_advisor_call(resp, s, generate_pool(AllCourses, s, {}, {}), minc,
                         maxc).value : resp \in ProjectionResponses }

InitProject ==
    /\ pc = "projections_tab"
    /\ ValidateIdle
    /\ student \in ProjectionStudents
    /\ selected_courses = {}
    /\ deselected_courses = {}
    /\ available = << >>
    /\ available_courses = << >>
    /\ \E lim \in CreditLimits : min_credits = lim[1] /\ max_credits = lim[2]
    /\ current_semester = student.current_semester
    /\ proposal = None
    /\ rec = None
    /\ result = NoDict
    /\ response = NoDict
    /\ advisor_calls = 0
    /\ \E cur \in CurrentRecommendations(student, min_credits, max_credits) :
          /\ "recommendations" \in DOMAIN cur
          /\ recommendations = Some(cur)
          /\ \E i \in 1..Len(cur.recommendations) :
                current_rec = Some(cur.recommendations[i])
    /\ SimulateIdle
    /\ cascade = [t \in FutureTargets(student) |-> NoDict]
    /\ assumed_of = [t \in FutureTargets(student) |-> NoDict]

\* the projections stored for the tabs before target's, in tab order
\* (projection_chain at the time of the call, lines 155-183)
RECURSIVE ProjectionChain(_, _, _)
ProjectionChain(stored, t, target) ==
    IF t >= target THEN << >>
    ELSE (IF stored[t] # NoDict THEN << stored[t][1] >> ELSE << >>)
         \o ProjectionChain(stored, t + 1, target)

\* the Generate Projection button of one tab (lines 160-178)
ProjectSemester(target) ==
    /\ pc \in {"projections_tab", "projection_shown"}
    /\ advisor_calls < MaxProjections
    /\ advisor_calls' = advisor_calls + 1
    /\ \E resp \in ProjectionResponses :
       \E out \in { generate_future_projections(
                       student, AllCourses, current_rec[1], min_credits,
                       max_credits, target,
                       ProjectionChain(cascade, student.current_semester + 1, target),
                       resp) } :
          /\ completed_courses' = out.assumed_completed
          /\ target_semester' = Some(target)
          /\ heap' = out.heap
          /\ student_ref' = out.student_ref
          /\ simulated_ref' = out.simulated_ref
          /\ available' = out.available
          /\ cascade' = [cascade EXCEPT ![target] = Some(out.value)]
          /\ assumed_of' = [assumed_of EXCEPT ![target] = Some(out.assumed_completed)]
    /\ pc' = "projection_shown"
    /\ UNCHANGED << student, selected_courses, deselected_courses, enforceVars,
                    response, recommendations, edits, validateVars, current_rec >>

NextProject == \E target \in FutureTargets(student) : ProjectSemester(target)

SpecProject == InitProject /\ [][NextProject]_vars

(***************************************************************************)
(* Claims about the projections (specification SpecProject).               *)
(***************************************************************************)
\* the profile the last projection simulated
SimulatedStudent == ProfileValue(heap, simulated_ref)

\* what the last projection returned
Projected == cascade[target_semester[1]][1]

\* C22: the pool of a projection holds no course the simulated student
\* passed (the original passed codes and the assumed-completed codes the
\* catalog has), holds Proj2 only for target 8 and Proj1 only for target 7,
\* and every recommendation returned lists only codes of that pool
C22_PoolGatesAndContainment ==
    pc = "projection_shown" =>
        /\ PoolCodes \cap (PassedSet \cup (Range(completed_courses) \cap Codes)) = {}
        /\ PoolCodes \cap Range(get_passed_courses(SimulatedStudent)) = {}
        /\ "Proj2" \in PoolCodes => target_semester = Some(8)
        /\ "Proj1" \in PoolCodes => target_semester = Some(7)
        /\ "recommendations" \in DOMAIN Projected =>
              \A i \in 1..Len(Projected.recommendations) :
                  Range(Projected.recommendations[i].courses) \subseteq PoolCodes

\* a projection of semester 8 recommends Proj2, for a student who passed a
\* course and is assumed to have completed others
C22_Witness ==
    /\ pc = "projection_shown"
    /\ target_semester = Some(8)
    /\ PassedSet # {}
    /\ completed_courses # << >>
    /\ "Proj2" \in PoolCodes
    /\ "Proj1" \notin PoolCodes
    /\ HasBest(Projected)
    /\ "Proj2" \in Range(Projected.recommendations[1].courses)

\* a projection of semester 7 has Proj1 in its pool
C22_WitnessSeven ==
    /\ pc = "projection_shown"
    /\ target_semester = Some(7)
    /\ "Proj1" \in PoolCodes

\* C23: a course the simulated student currently fails (failed, and neither
\* passed nor assumed completed) is in the pool of the projection whatever
\* its year_level, as in generate_pool
C23_FailedOverridesYear ==
    pc = "projection_shown" =>
        get_failed_courses(SimulatedStudent) \cap Codes \subseteq PoolCodes

\* ---- C24 ----
\* the semesters between the student's and the target of the last projection
Intermediate == (student.current_semester + 1)..(target_semester[1] - 1)

RECURSIVE BestCoursesUpTo(_, _)
\* the courses of the rank-1 recommendations stored for the semesters from
\* t up to, not including, target, in order
BestCoursesUpTo(t, target) ==
    IF t >= target THEN << >>
    ELSE cascade[t][1].recommendations[1].courses \o BestCoursesUpTo(t + 1, target)

IsPrefix(a, b) == Len(a) <= Len(b) /\ SubSeq(b, 1, Len(a)) = a

\* C24: projecting semester N+k assumes the rank-1 recommendation of every
\* semester from N to N+k-1, in order: the assumed-completed list is the
\* courses of the semester-N recommendation followed by those of the rank-1
\* recommendation of each earlier projection, and the list of a later
\* semester extends the list of an earlier one
C24_AssumesEveryIntermediate ==
    pc = "projection_shown" =>
        /\ \A t \in Intermediate : cascade[t] # NoDict /\ HasBest(cascade[t][1])
        /\ completed_courses =
              current_rec[1].courses
                \o BestCoursesUpTo(student.current_semester + 1, target_semester[1])
        /\ \A t1, t2 \in DOMAIN assumed_of :
              (t1 < t2 /\ assumed_of[t1] # NoDict /\ assumed_of[t2] # NoDict) =>
                  IsPrefix(assumed_of[t1][1], assumed_of[t2][1])

\* ---- C30 ----
\* the projections up to target were made in order, each from the results of
\* the earlier ones as they are stored now
ChainInOrder(target) ==
    \A t \in (student.current_semester + 1)..target :
        /\ cascade[t] # NoDict
        /\ assumed_of[t] =
              Some(ExtendAssumed(current_rec[1].courses,
                                 ProjectionChain(cascade, student.current_semester + 1,
                                                 t)))

\* C30: in a chain projected in order, no code occurs twice in the
\* assumed-completed list handed to the simulator, and the simulated
\* total_credits_earned counts every course once
C30_ChainWithoutRepeats ==
    (pc = "projection_shown" /\ ChainInOrder(target_semester[1])) =>
        /\ NoRepeats(completed_courses)
        /\ SimulatedStudent.total_credits_earned =
              student.total_credits_earned
                + CatalogCredits(Range(completed_courses))

====
